---- MODULE Spec2Model ----
(***************************************************************************)
(* Model of the Polarity REST client (lib/polarity.js, lib/validator.js):  *)
(* the session (connect / disconnect), the bulk tag upload (applyTags,     *)
(* _applyTags) and the field validators it uses.                           *)
(*                                                                         *)
(* A JavaScript string is a sequence of one-character strings.  One action *)
(* is one run of the single-threaded event loop: from a call or a transport*)
(* callback up to the next await or to the settling of the promise.        *)
(***************************************************************************)
EXTENDS Integers, Sequences, FiniteSets, TLC

VARIABLES
    isConnected,        \* this.isConnected
    host,               \* this.host
    postmanRequest,     \* this.postmanRequest: "null" or the request object of a connect call
    sessionCalls,       \* the connect() and disconnect() calls made so far, in order
    applyPc,            \* position of the applyTags() call
    rows,               \* applyTags argument
    channelId,          \* applyTags argument
    stopOnInvalidData,  \* applyTags argument
    rowIndex,           \* applyTags local: index (1-based) of the row at which the loop resumes
    data,               \* applyTags local: the buffered tag-entity pairs
    uploadResult,       \* applyTags local
    settled,            \* value the applyTags promise resolved with / rejected with
    requests,           \* transport: the tag upload requests issued so far, in order
    pending,            \* transport: indices in requests that have not been answered
    answers,            \* transport: the answers given to the upload requests, in order
    clearPc,            \* position of the clearChannelById() call
    waitUntilComplete,  \* clearChannelById argument
    clearResponse,      \* clearChannelById callback argument: the DELETE response
    clearBody,          \* clearChannelById callback argument: the DELETE body (an object)
    pollingInterval,    \* clearChannelById local: the interval timer
    checks,             \* the is-channel-empty checks started by the timer, in order
    clearSettled,       \* value the clearChannelById promise resolved / rejected with
    clearRequests,      \* transport: number of DELETE requests issued
    apiPc,              \* position of each single-request call (search, getUsers, createUser)
    apiSettled,         \* value each of these promises resolved / rejected with
    apiRequests,        \* transport: the requests issued by these calls, in order
    apiConnectedAtCall, \* history: this.isConnected when each of these calls was made
    apiArg,             \* the argument each of these calls keeps for its callback
    apiAnswer,          \* history: the answer given to the request of each of these calls
    subject,            \* the string handed to the validators
    verdict,            \* what each validator returned for it
    ipVerdict,          \* the address predicate applied to it and what it returned
    clearChannelPc,     \* position of the clearChannel() call
    nameToClear,        \* clearChannel argument channelName
    channelToClear,     \* clearChannel local `channel`: what getChannel resolved with
    clearChannelSettled,\* value the clearChannel promise settled with by itself
    getChannelRequests, \* transport: the GET /v2/channels requests of clearChannel
    getChannelAnswer,   \* history: the answer given to that request
    searchPc,           \* position of the searchIntegrations() call
    integrations,       \* searchIntegrations argument
    textLength,         \* searchIntegrations argument: text.length
    ignoreLookupErrors, \* searchIntegrations argument
    entities,           \* searchIntegrations local
    resultsByIntegration, \* searchIntegrations local
    errorsByIntegration,  \* searchIntegrations local
    lookups,            \* async.eachLimit: the state of the iteratee of each integration
    searchSettled,      \* value the searchIntegrations promise resolved / rejected with
    parseAnswer,        \* history: the answer given to the parse request
    searchRequests,     \* transport: the requests of searchIntegrations, in order
    lookupPlan          \* transport: the answer the server gives to each lookup

vars == <<isConnected, host, postmanRequest, sessionCalls, applyPc,
          rows, channelId, stopOnInvalidData, rowIndex, data, uploadResult,
          settled, requests, pending, answers,
          clearPc, waitUntilComplete, clearResponse, clearBody, pollingInterval,
          checks, clearSettled, clearRequests,
          apiPc, apiSettled, apiRequests, apiConnectedAtCall, apiArg, apiAnswer,
          subject, verdict, ipVerdict,
          clearChannelPc, nameToClear, channelToClear, clearChannelSettled,
          getChannelRequests, getChannelAnswer,
          searchPc, integrations, textLength, ignoreLookupErrors, entities,
          resultsByIntegration, errorsByIntegration, lookups, searchSettled,
          parseAnswer, searchRequests, lookupPlan>>

sessionVars == <<isConnected, host, postmanRequest, sessionCalls>>
applyVars == <<applyPc, rows, channelId, stopOnInvalidData, rowIndex, data,
               uploadResult, settled, requests, pending, answers>>
clearVars == <<clearPc, waitUntilComplete, clearResponse, clearBody,
               pollingInterval, checks, clearSettled, clearRequests>>
apiVars == <<apiPc, apiSettled, apiRequests, apiConnectedAtCall, apiArg,
             apiAnswer>>
validatorVars == <<subject, verdict, ipVerdict>>
clearChannelVars == <<clearChannelPc, nameToClear, channelToClear, clearChannelSettled,
                      getChannelRequests, getChannelAnswer>>
searchVars == <<searchPc, integrations, textLength, ignoreLookupErrors, entities,
                resultsByIntegration, errorsByIntegration, lookups, searchSettled,
                parseAnswer, searchRequests, lookupPlan>>

----------------------------------------------------------------------------
(* Bounds of the model *)

MaxRows == 2
MaxIntegrations == 11

----------------------------------------------------------------------------
(* Strings *)

Whitespace == {" ", "\t", "\n"}

Str(n, c) == [i \in 1..n |-> c]

RECURSIVE TrimStart(_)
TrimStart(s) ==
    IF s = <<>> \/ Head(s) \notin Whitespace THEN s ELSE TrimStart(Tail(s))

RECURSIVE TrimEnd(_)
TrimEnd(s) ==
    IF s = <<>> \/ s[Len(s)] \notin Whitespace THEN s
    ELSE TrimEnd(SubSeq(s, 1, Len(s) - 1))

\* String.prototype.trim
Trim(s) == TrimEnd(TrimStart(s))

----------------------------------------------------------------------------
(* lib/validator.js *)

MINIMUM_TAG_NAME_LENGTH == 1
MAXIMUM_TAG_NAME_LENGTH == 2100
MAXIMUM_ENTITY_NAME_LENGTH == 256
MINIMUM_ENTITY_NAME_LENGTH == 1

\* the absent return value of a validator (it falls off its end): no message
NoError == <<>>

\* An error message is the template with the offending value spliced in.
validateTag(tag) ==
    IF Len(tag) < MINIMUM_TAG_NAME_LENGTH \/ Len(tag) > MAXIMUM_TAG_NAME_LENGTH
    THEN <<"The tag '", tag, "' must be greater than or equal to ",
           MINIMUM_TAG_NAME_LENGTH,
           " characters and less than or equal to ",
           MAXIMUM_TAG_NAME_LENGTH, " characters">>
    ELSE NoError

\* variant: the upper bound of the entity length is exclusive
validateEntity_Exclusive(entity) ==
    IF Len(entity) < MINIMUM_ENTITY_NAME_LENGTH \/ Len(entity) >= MAXIMUM_ENTITY_NAME_LENGTH
    THEN <<"The entity '", entity, "' must be greater than or equal to ",
           MINIMUM_ENTITY_NAME_LENGTH,
           " characters and less than or equal to ",
           MAXIMUM_ENTITY_NAME_LENGTH, " characters">>
    ELSE NoError

validateEntity(entity) ==
    IF Len(entity) < MINIMUM_ENTITY_NAME_LENGTH \/ Len(entity) > MAXIMUM_ENTITY_NAME_LENGTH
    THEN <<"The entity '", entity, "' must be greater than or equal to ",
           MINIMUM_ENTITY_NAME_LENGTH,
           " characters and less than or equal to ",
           MAXIMUM_ENTITY_NAME_LENGTH, " characters">>
    ELSE NoError

DecimalDigits == <<"0", "1", "2", "3", "4", "5", "6", "7", "8", "9">>
IsDigit(c) == \E d \in 1..10 : DecimalDigits[d] = c
DigitValue(c) == (CHOOSE d \in 1..10 : DecimalDigits[d] = c) - 1
IsHexDigit(c) ==
    IsDigit(c) \/ c \in {"a", "b", "c", "d", "e", "f", "A", "B", "C", "D", "E", "F"}

Contains(s, c) == \E i \in 1..Len(s) : s[i] = c

\* String.prototype.split(sep) for a one-character separator
RECURSIVE Split(_, _)
Split(s, sep) ==
    IF ~Contains(s, sep) THEN <<s>>
    ELSE LET i == CHOOSE k \in 1..Len(s) :
                      s[k] = sep /\ \A j \in 1..(k - 1) : s[j] # sep
         IN  <<SubSeq(s, 1, i - 1)>> \o Split(SubSeq(s, i + 1, Len(s)), sep)

\* A JavaScript number: NaN, or an integer.  The code compares these numbers
\* with 0, 32, 128 and 255 and takes them modulo a power of two only when
\* they are at most 255, so every integer above 999 is represented by 1000.
NaN == [nan |-> TRUE, val |-> 0]
Num(n) == [nan |-> FALSE, val |-> n]
NumLt(a, n) == ~a.nan /\ a.val < n
NumGt(a, n) == ~a.nan /\ a.val > n
NumGe(a, n) == ~a.nan /\ a.val >= n
NumLe(a, n) == ~a.nan /\ a.val <= n
NumEq(a, n) == ~a.nan /\ a.val = n
NumMod(a, m) == IF a.nan THEN NaN ELSE Num(a.val % m)

RECURSIVE StripZeros(_)
StripZeros(s) ==
    IF Len(s) > 1 /\ Head(s) = "0" THEN StripZeros(Tail(s)) ELSE s

RECURSIVE DecimalValue(_)
DecimalValue(s) ==
    IF s = <<>> THEN 0
    ELSE DecimalValue(SubSeq(s, 1, Len(s) - 1)) * 10 + DigitValue(s[Len(s)])

\* the value of a non-empty string of decimal digits
DigitsValue(s) ==
    LET t == StripZeros(s) IN IF Len(t) > 3 THEN 1000 ELSE DecimalValue(t)

RECURSIVE DigitPrefix(_)
DigitPrefix(s) ==
    IF s = <<>> \/ ~IsDigit(Head(s)) THEN <<>>
    ELSE <<Head(s)>> \o DigitPrefix(Tail(s))

\* parseInt(s, 10): leading white space, an optional sign, then the longest
\* run of digits; NaN when that run is empty
parseInt(s) ==
    LET t == TrimStart(s)
        signed == t # <<>> /\ Head(t) \in {"+", "-"}
        digits == DigitPrefix(IF signed THEN Tail(t) ELSE t)
    IN  IF digits = <<>> THEN NaN
        ELSE IF signed /\ Head(t) = "-" THEN Num(0 - DigitsValue(digits))
        ELSE Num(DigitsValue(digits))

\* unary plus applied to a string: the numeric value of the trimmed string
\* (0 for the empty string), NaN when it is not a decimal integer literal
ToNumber(s) ==
    LET t == Trim(s)
    IN  IF t = <<>> THEN Num(0)
        ELSE IF \A i \in 1..Len(t) : IsDigit(t[i]) THEN Num(DigitsValue(t))
        ELSE NaN

_hasLeadingZero(value) == Len(value) > 1 /\ value[1] = "0"

_isValidOctet(value) == \A i \in 1..Len(value) : IsDigit(value[i])

\* hasSpaceRegex.test(value)
HasSpace(value) == \E i \in 1..Len(value) : value[i] \in Whitespace

\* hasPercentRegex.test(value)
HasPercent(value) == Contains(value, "%")

\* variant: an octet may begin with zeros
isIPv4_LeadingZeros(v) ==
    LET value == Trim(v)
        octets == Split(value, ".")
        n == [i \in 1..4 |-> ToNumber(octets[i])]
    IN  /\ ~HasSpace(value)
        /\ Len(octets) = 4
        /\ \A i \in 1..4 : octets[i] # <<>>
        /\ \A i \in 1..4 : _isValidOctet(octets[i])
        /\ \A i \in 1..4 : ~n[i].nan
        /\ \A i \in 1..4 : ~(NumLt(n[i], 0) \/ NumGt(n[i], 255))

isIPv4(v) ==
    LET value == Trim(v)
        octets == Split(value, ".")
        n == [i \in 1..4 |-> ToNumber(octets[i])]
    IN  /\ ~HasSpace(value)
        /\ Len(octets) = 4
        /\ \A i \in 1..4 : octets[i] # <<>>
        /\ \A i \in 1..4 : _isValidOctet(octets[i])
        /\ \A i \in 1..4 : ~_hasLeadingZero(octets[i])
        /\ \A i \in 1..4 : ~n[i].nan
        /\ \A i \in 1..4 : ~(NumLt(n[i], 0) \/ NumGt(n[i], 255))

\* Address4 of the ip-address package, as used for the dotted tail of an
\* IPv6 address: four groups of one to three digits, each at most 255
Address4IsValid(s) ==
    LET groups == Split(s, ".")
    IN  /\ Len(groups) = 4
        /\ \A i \in 1..4 :
              /\ Len(groups[i]) \in 1..3
              /\ _isValidOctet(groups[i])
              /\ DecimalValue(groups[i]) <= 255

\* String.prototype.split('::')
RECURSIVE SplitDoubleColon(_)
SplitDoubleColon(s) ==
    IF ~\E k \in 1..(Len(s) - 1) : s[k] = ":" /\ s[k + 1] = ":" THEN <<s>>
    ELSE LET i == CHOOSE k \in 1..(Len(s) - 1) :
                    /\ s[k] = ":" /\ s[k + 1] = ":"
                    /\ \A j \in 1..(k - 1) : ~(s[j] = ":" /\ s[j + 1] = ":")
         IN  <<SubSeq(s, 1, i - 1)>> \o SplitDoubleColon(SubSeq(s, i + 2, Len(s)))

\* the start of the "/ddd" suffix (one to three digits up to the end of the
\* string) that Address6 takes for the subnet mask, or 0 when there is none
SubnetStart(s) ==
    LET starts == {k \in 1..Len(s) :
                      /\ s[k] = "/"
                      /\ Len(s) - k \in 1..3
                      /\ \A j \in (k + 1)..Len(s) : IsDigit(s[j])}
    IN  IF starts = {} THEN 0 ELSE CHOOSE k \in starts : \A j \in starts : k <= j

\* the address with a valid dotted tail replaced by two hexadecimal groups
\* (their value does not matter for validity)
Replace4in6(s) ==
    LET groups == Split(s, ":")
        lastGroup == groups[Len(groups)]
    IN  IF Address4IsValid(lastGroup)
        THEN SubSeq(s, 1, Len(s) - Len(lastGroup)) \o <<"0", ":", "0">>
        ELSE s

\* RE_BAD_CHARACTERS of the ip-address package
HasBadCharacters(s) ==
    \E i \in 1..Len(s) : ~(IsHexDigit(s[i]) \/ s[i] \in {":", "/", "%"})

\* RE_BAD_ADDRESS of the ip-address package: five hexadecimal digits in a
\* row, three colons in a row, a single colon at either end, a final slash
HasBadAddress(s) ==
    \/ \E i \in 1..(Len(s) - 4) : \A j \in i..(i + 4) : IsHexDigit(s[j])
    \/ \E i \in 1..(Len(s) - 2) : \A j \in i..(i + 2) : s[j] = ":"
    \/ Len(s) >= 2 /\ s[Len(s)] = ":" /\ s[Len(s) - 1] # ":"
    \/ Len(s) >= 2 /\ s[1] = ":" /\ s[2] # ":"
    \/ Len(s) >= 1 /\ s[Len(s)] = "/"

GroupsOf(half) == IF half = <<>> THEN <<>> ELSE Split(half, ":")

\* new ipAddress.Address6(value).isValid()
Address6IsValid(value) ==
    LET k == SubnetStart(value)
        maskOk == k = 0 \/ DigitsValue(SubSeq(value, k + 1, Len(value))) <= 128
        address == IF k = 0 THEN value ELSE SubSeq(value, 1, k - 1)
        slashOk == k # 0 \/ ~Contains(value, "/")
        parsed == Replace4in6(address)
        halves == SplitDoubleColon(parsed)
    IN  /\ maskOk
        /\ slashOk
        /\ ~HasBadCharacters(parsed)
        /\ ~HasBadAddress(parsed)
        /\ CASE Len(halves) = 1 -> Len(Split(parsed, ":")) = 8
             [] Len(halves) = 2 ->
                  Len(GroupsOf(halves[1])) + Len(GroupsOf(halves[2])) <= 7
             [] OTHER -> FALSE

isIPv6(v) ==
    LET value == Trim(v)
    IN  /\ ~(HasSpace(value) \/ HasPercent(value))
        /\ Address6IsValid(value)

isIP(value) == isIPv4(value) \/ isIPv6(value)

\* variant: a prefix of 17 to 24 bits leaves the last octet unchecked
isIPv4Cidr_LastOctetFree(v) ==
    LET value == Trim(v)
        tokens == Split(value, "/")
        cidrBlock == parseInt(tokens[2])
        ip == tokens[1]
        octets == Split(ip, ".")
        octet0 == ToNumber(octets[1])
        octet1 == ToNumber(octets[2])
        octet2 == ToNumber(octets[3])
        octet3 == ToNumber(octets[4])
    IN  /\ Len(tokens) = 2
        \* cidrBlock === NaN is false for every value, NaN included
        /\ ~(NumLt(cidrBlock, 0) \/ NumGt(cidrBlock, 32))
        /\ isIPv4(ip)
        /\ \/ /\ NumLe(cidrBlock, 32) /\ NumGe(cidrBlock, 25)
              /\ NumEq(NumMod(octet3, 2 ^ (32 - cidrBlock.val)), 0)
           \/ /\ NumLe(cidrBlock, 24) /\ NumGe(cidrBlock, 17)
              /\ NumEq(NumMod(octet2, 2 ^ (24 - cidrBlock.val)), 0)
           \/ /\ NumLe(cidrBlock, 16) /\ NumGe(cidrBlock, 9)
              /\ NumEq(octet3, 0) /\ NumEq(octet2, 0)
              /\ NumEq(NumMod(octet1, 2 ^ (16 - cidrBlock.val)), 0)
           \/ /\ NumLe(cidrBlock, 8) /\ NumGe(cidrBlock, 1)
              /\ NumEq(octet3, 0) /\ NumEq(octet2, 0) /\ NumEq(octet1, 0)
              /\ NumEq(NumMod(octet0, 2 ^ (8 - cidrBlock.val)), 0)
           \/ /\ NumEq(cidrBlock, 0)
              /\ NumEq(octet3, 0) /\ NumEq(octet2, 0) /\ NumEq(octet1, 0)
              /\ NumEq(octet0, 0)

isIPv4Cidr(v) ==
    LET value == Trim(v)
        tokens == Split(value, "/")
        cidrBlock == parseInt(tokens[2])
        ip == tokens[1]
        octets == Split(ip, ".")
        octet0 == ToNumber(octets[1])
        octet1 == ToNumber(octets[2])
        octet2 == ToNumber(octets[3])
        octet3 == ToNumber(octets[4])
    IN  /\ Len(tokens) = 2
        \* cidrBlock === NaN is false for every value, NaN included
        /\ ~(NumLt(cidrBlock, 0) \/ NumGt(cidrBlock, 32))
        /\ isIPv4(ip)
        /\ \/ /\ NumLe(cidrBlock, 32) /\ NumGe(cidrBlock, 25)
              /\ NumEq(NumMod(octet3, 2 ^ (32 - cidrBlock.val)), 0)
           \/ /\ NumLe(cidrBlock, 24) /\ NumGe(cidrBlock, 17)
              /\ NumEq(octet3, 0)
              /\ NumEq(NumMod(octet2, 2 ^ (24 - cidrBlock.val)), 0)
           \/ /\ NumLe(cidrBlock, 16) /\ NumGe(cidrBlock, 9)
              /\ NumEq(octet3, 0) /\ NumEq(octet2, 0)
              /\ NumEq(NumMod(octet1, 2 ^ (16 - cidrBlock.val)), 0)
           \/ /\ NumLe(cidrBlock, 8) /\ NumGe(cidrBlock, 1)
              /\ NumEq(octet3, 0) /\ NumEq(octet2, 0) /\ NumEq(octet1, 0)
              /\ NumEq(NumMod(octet0, 2 ^ (8 - cidrBlock.val)), 0)
           \/ /\ NumEq(cidrBlock, 0)
              /\ NumEq(octet3, 0) /\ NumEq(octet2, 0) /\ NumEq(octet1, 0)
              /\ NumEq(octet0, 0)

isIPv6Cidr(v) ==
    LET value == Trim(v)
        tokens == Split(value, "/")
        cidrBlock == parseInt(tokens[2])
        ip == tokens[1]
    IN  /\ Len(tokens) = 2
        \* cidrBlock === NaN is false for every value, NaN included
        /\ ~(NumLt(cidrBlock, 0) \/ NumGt(cidrBlock, 128))
        /\ isIPv6(ip)

isIPCidr(value) == isIPv4Cidr(value) \/ isIPv6Cidr(value)

\* variant: the parts after the second one are ignored
isIPv4Range_FirstTwo(v) ==
    LET value == Trim(v)
        ipAddresses == Split(value, "-")
    IN  /\ Len(ipAddresses) >= 2
        /\ isIPv4(Trim(ipAddresses[1]))
        /\ isIPv4(Trim(ipAddresses[2]))

isIPv4Range(v) ==
    LET value == Trim(v)
        ipAddresses == Split(value, "-")
    IN  /\ Len(ipAddresses) = 2
        /\ isIPv4(Trim(ipAddresses[1]))
        /\ isIPv4(Trim(ipAddresses[2]))

isIPv6Range(v) ==
    LET value == Trim(v)
        ipAddresses == Split(value, "-")
    IN  /\ Len(ipAddresses) = 2
        /\ isIPv6(Trim(ipAddresses[1]))
        /\ isIPv6(Trim(ipAddresses[2]))

isIPRange(value) == isIPv4Range(value) \/ isIPv6Range(value)

isIP4r(value) == isIP(value) \/ isIPCidr(value) \/ isIPRange(value)

----------------------------------------------------------------------------
(* JavaScript values *)

\* the value of an unassigned variable / an absent property
undefined == "undefined"
null == "null"

\* An object is a record over all the properties the library's rejections
\* use; keys is the set of properties the object really has.
Obj(keys, detail, message, status, body, err, tagEntityPairs) ==
    [keys |-> keys, detail |-> detail, message |-> message, status |-> status,
     body |-> body, err |-> err, tagEntityPairs |-> tagEntityPairs]

\* { detail }
DetailObj(detail) == Obj({"detail"}, detail, NoError, 0, undefined, undefined, <<>>)

\* variant: the abort rejects with a plain { detail } object instead of an Error
NewError_AsDetail(message) ==
    Obj({"detail"}, message, NoError, 0, undefined, undefined, <<>>)

\* new Error(message)
NewError(message) ==
    Obj({"message", "stack"}, undefined, message, 0, undefined, undefined, <<>>)

\* a promise that has not settled, and the ways it can settle
NotSettled == [kind |-> "none"]
ResolvedWith(value) == [kind |-> "resolved", value |-> value]
RejectedWith(value) == [kind |-> "rejected", value |-> value]

----------------------------------------------------------------------------
(* lib/polarity.js: applyTags *)

MAX_TAG_ENTITIES_PER_REQUEST == 2000

\* variant: every entity is typed 'string'
EntityType_AlwaysString(entity) == "string"

\* isIP4r(entity) ? 'ip' : 'string'
EntityType(entity) == IF isIP4r(entity) THEN "ip" ELSE "string"

_createTagEntityPair(entity, tag, channels) ==
    [type |-> "tag-entity-pairs",
     attributes |-> [type |-> EntityType(entity), entity |-> entity,
                     tag |-> tag, channel_id |-> channels]]

\* variant: the pairs of a row are pushed in reverse column order
RowPairs_Reversed(entity, tags, channels) ==
    LET proto == _createTagEntityPair(entity, <<>>, channels)
    IN  [i \in 1..Len(tags) |->
            [proto EXCEPT !.attributes =
                [proto.attributes EXCEPT !.tag = tags[Len(tags) + 1 - i]]]]

\* The pairs pushed for the (trimmed, valid) tags of one row, in column order.
\* The entity type depends on the entity alone and is computed once.
RowPairs(entity, tags, channels) ==
    LET proto == _createTagEntityPair(entity, <<>>, channels)
    IN  [i \in 1..Len(tags) |->
            [proto EXCEPT !.attributes = [proto.attributes EXCEPT !.tag = tags[i]]]]

IsValidTag(tag) == validateTag(tag) = NoError

\* variant: the buffer is uploaded after every row that leaves it non-empty
NeedsFlush_EveryRow(d) == Len(d) >= 1

\* the condition under which the buffer is uploaded after a row
NeedsFlush(d) == Len(d) >= MAX_TAG_ENTITIES_PER_REQUEST

\* variant: an invalid tag ends the column loop (break instead of continue)
ProcessRow_BreakOnInvalidTag(row, d, channel, stop) ==
    LET entity == Trim(row[1])
        entityError == validateEntity(entity)
        tags == [i \in 1..(Len(row) - 1) |-> Trim(row[i + 1])]
        bad == {i \in 1..Len(tags) : ~IsValidTag(tags[i])}
        firstBad == CHOOSE i \in bad : \A j \in bad : i <= j
    IN  IF entityError # NoError /\ stop
        THEN [thrown |-> entityError, data |-> d]
        ELSE IF entityError # NoError
        THEN [thrown |-> NoError, data |-> d]
        ELSE IF bad # {} /\ stop
        THEN [thrown |-> validateTag(tags[firstBad]),
              data |-> d \o RowPairs(entity, SubSeq(tags, 1, firstBad - 1), <<channel>>)]
        ELSE IF bad # {}
        THEN [thrown |-> NoError,
              data |-> d \o RowPairs(entity, SubSeq(tags, 1, firstBad - 1), <<channel>>)]
        ELSE [thrown |-> NoError,
              data |-> d \o RowPairs(entity, tags, <<channel>>)]

\* variant: an invalid tag is skipped even when stopOnInvalidData is set
ProcessRow_TagNeverStops(row, d, channel, stop) ==
    LET entity == Trim(row[1])
        entityError == validateEntity(entity)
        tags == [i \in 1..(Len(row) - 1) |-> Trim(row[i + 1])]
    IN  IF entityError # NoError /\ stop
        THEN [thrown |-> entityError, data |-> d]
        ELSE IF entityError # NoError
        THEN [thrown |-> NoError, data |-> d]
        ELSE [thrown |-> NoError,
              data |-> d \o RowPairs(entity, SelectSeq(tags, IsValidTag), <<channel>>)]

\* One iteration of the row loop, from `const row = rows[rowIndex]` to the
\* flush test: thrown is the message of the Error thrown (NoError when the
\* iteration ends normally) and data is the buffer at that point.
ProcessRow(row, d, channel, stop) ==
    LET entity == Trim(row[1])
        entityError == validateEntity(entity)
        tags == [i \in 1..(Len(row) - 1) |-> Trim(row[i + 1])]
        bad == {i \in 1..Len(tags) : ~IsValidTag(tags[i])}
        firstBad == CHOOSE i \in bad : \A j \in bad : i <= j
    IN  IF entityError # NoError /\ stop
        THEN [thrown |-> entityError, data |-> d]
        ELSE IF entityError # NoError
        THEN [thrown |-> NoError, data |-> d]
        ELSE IF bad # {} /\ stop
        THEN [thrown |-> validateTag(tags[firstBad]),
              data |-> d \o RowPairs(entity, SubSeq(tags, 1, firstBad - 1), <<channel>>)]
        ELSE [thrown |-> NoError,
              data |-> d \o RowPairs(entity, SelectSeq(tags, IsValidTag), <<channel>>)]

\* The row loop and the code after it, run from row r with buffer d up to
\* the point where the function suspends or settles:
\*   "awaitLoop"  suspended in `await this._applyTags(data)` inside the loop,
\*   "awaitFinal" suspended in the one after the loop,
\*   "resolve"    reached resolve(uploadResult) without suspending,
\*   "throw"      an Error was thrown (caught by the catch block).
RECURSIVE RunLoop(_, _, _, _, _)
\* the end of one iteration: pr is what ProcessRow made of row r
AfterRow(rs, r, pr, channel, stop) ==
    IF pr.thrown # NoError
    THEN [at |-> "throw", rowIndex |-> r, data |-> pr.data, thrown |-> pr.thrown]
    ELSE IF NeedsFlush(pr.data)
    THEN [at |-> "awaitLoop", rowIndex |-> r, data |-> pr.data, thrown |-> NoError]
    ELSE RunLoop(rs, r + 1, pr.data, channel, stop)

\* variant: the buffer left after the loop is uploaded even when it is empty
RunLoop_FlushEmpty(rs, r, d, channel, stop) ==
    IF r > Len(rs)
    THEN [at |-> "awaitFinal", rowIndex |-> r, data |-> d, thrown |-> NoError]
    ELSE AfterRow(rs, r, ProcessRow(rs[r], d, channel, stop), channel, stop)

RunLoop(rs, r, d, channel, stop) ==
    IF r > Len(rs)
    THEN IF Len(d) > 0
         THEN [at |-> "awaitFinal", rowIndex |-> r, data |-> d, thrown |-> NoError]
         ELSE [at |-> "resolve", rowIndex |-> r, data |-> d, thrown |-> NoError]
    ELSE AfterRow(rs, r, ProcessRow(rs[r], d, channel, stop), channel, stop)

\* the request _applyTags hands to the transport
UploadRequest(tagEntityPairs) ==
    [uri |-> <<host, "/v2/tag-entity-pairs">>, method |-> "POST",
     body |-> [data |-> tagEntityPairs]]

\* variant: the upload inside the loop is not awaited, so the loop goes on to
\* the next suspension point and issues that upload as well
Continue_NoAwait(rs, channel, stop, r, d, pend) ==
    LET run1 == RunLoop(rs, r, d, channel, stop)
        run2 == RunLoop(rs, run1.rowIndex + 1, <<>>, channel, stop)
        both == run1.at = "awaitLoop" /\ run2.at \in {"awaitLoop", "awaitFinal"}
        run == IF both THEN run2 ELSE run1
    IN  /\ rowIndex' = run.rowIndex
        /\ data' = run.data
        /\ CASE run.at = "throw" ->
                  /\ applyPc' = "rejected"
                  /\ settled' = NewError(run.thrown)
                  /\ pending' = pend
                  /\ UNCHANGED requests
             [] run.at = "resolve" ->
                  /\ applyPc' = "resolved"
                  /\ settled' = uploadResult'
                  /\ pending' = pend
                  /\ UNCHANGED requests
             [] OTHER ->
                  /\ applyPc' = run.at
                  /\ requests' = IF both
                                 THEN requests \o <<UploadRequest(run1.data),
                                                    UploadRequest(run2.data)>>
                                 ELSE Append(requests, UploadRequest(run.data))
                  /\ pending' = IF both
                                THEN pend \cup {Len(requests) + 1, Len(requests) + 2}
                                ELSE pend \cup {Len(requests) + 1}
                  /\ UNCHANGED settled

\* The effect of running the loop over rows rs from row r with buffer d,
\* pend being the requests still unanswered: either the promise settles, or
\* one upload request is issued and the call suspends.
Suspend(run, pend) ==
    /\ rowIndex' = run.rowIndex
    /\ data' = run.data
    /\ CASE run.at = "throw" ->
              /\ applyPc' = "rejected"
              /\ settled' = NewError(run.thrown)
              /\ pending' = pend
              /\ UNCHANGED requests
         [] run.at = "resolve" ->
              /\ applyPc' = "resolved"
              /\ settled' = uploadResult'
              /\ pending' = pend
              /\ UNCHANGED requests
         [] OTHER ->
              /\ applyPc' = run.at
              /\ requests' = Append(requests, UploadRequest(run.data))
              /\ pending' = pend \cup {Len(requests) + 1}
              /\ UNCHANGED settled

Continue(rs, channel, stop, r, d, pend) ==
    Suspend(RunLoop(rs, r, d, channel, stop), pend)

----------------------------------------------------------------------------
(* The transport's answers: callback arguments (err, response, body) *)

Bodies == {"bodyA", "bodyB"}
StatusCodes == {200, 201, 500}

Responses ==
    {[err |-> "ECONNRESET", statusCode |-> 0, body |-> undefined]}
    \cup [err : {null}, statusCode : StatusCodes, body : Bodies]

----------------------------------------------------------------------------
(* Inputs of applyTags *)

\* The tag of column i of a generated row: one character, a different one
\* for every column.  A character outside ASCII is written as its name.
Tag(i) == <<"u" \o ToString(i)>>

\* a row with a valid entity and n valid tags
WideRow(entity, n) == <<entity>> \o [i \in 1..n |-> Tag(i)]

RowPool ==
    << <<<<"1", ".", "2", ".", "3", ".", "4">>, <<"t", "a">>, <<" ", "t", "b", " ">>>>,
                                                  \* valid entity, tags to trim
       <<<<" ", "e", "1">>>>,                     \* entity only
       <<<<" ", " ">>>>,                          \* entity only, empty once trimmed
       <<Str(MAXIMUM_ENTITY_NAME_LENGTH + 1, "x"), <<"t", "d">>>>,
                                                  \* entity too long
       <<<<"1", ".", "2", ".", "3", ".", "4", "-", "1", ".", "2", ".", "3", ".", "5">>,
         <<"t", "e">>, <<" ">>, <<"t", "f">>,
         Str(MAXIMUM_TAG_NAME_LENGTH + 1, "y")>>, \* an empty and a too long tag
       WideRow(<<":", ":", "1", "/", "6", "4">>, MAX_TAG_ENTITIES_PER_REQUEST),
       WideRow(<<"1", ".", "2", ".", "3", ".", "5", "/", "2", "4">>,
               MAX_TAG_ENTITIES_PER_REQUEST + 1) >>

RowSets ==
    UNION {[1..n -> 1..Len(RowPool)] : n \in 0..MaxRows}

ChannelIds == {7}

\* the number of cells of the widest row of the pool
MaxColumns == MAX_TAG_ENTITIES_PER_REQUEST + 2

----------------------------------------------------------------------------
(* State machine *)

\* The body of a DELETE answer is an object: keys is the set of properties
\* it has.  NoBody is the body of an answer that has none.
NoBody ==
    [keys |-> {}, clearComplete |-> FALSE,
     meta |-> [num_context_rows_deleted |-> 0, is_channel_deleted |-> FALSE]]

\* no answer has been received
NoResponse == [err |-> null, statusCode |-> 0, body |-> NoBody]

\* the operations that issue one request and settle in its callback
ApiOps ==
    {"search", "getUsers", "createUser", "createChannel", "getChannel",
     "getIntegrations", "getIntegrationOptions", "restartIntegrationById",
     "updateIntegrationOption", "parseEntities", "integrationLookup",
     "deleteAnnotationById"}

\* no validator has returned
NoVerdict == [done |-> {}, entity |-> NoError, tag |-> NoError]
NoIpVerdict == [fn |-> "none", result |-> FALSE]

\* no clearChannelById call has been made
ClearIdle ==
    /\ clearPc = "idle"
    /\ waitUntilComplete = TRUE
    /\ clearResponse = NoResponse
    /\ clearBody = NoBody
    /\ pollingInterval = "none"
    /\ checks = <<>>
    /\ clearSettled = NotSettled
    /\ clearRequests = 0

\* no single-request call has been made
ApiIdle ==
    /\ apiPc = [op \in ApiOps |-> "idle"]
    /\ apiSettled = [op \in ApiOps |-> NotSettled]
    /\ apiRequests = <<>>
    /\ apiConnectedAtCall = [op \in ApiOps |-> FALSE]
    /\ apiArg = [op \in ApiOps |-> <<>>]
    /\ apiAnswer = [op \in ApiOps |-> <<>>]

\* no validator has been called
ValidatorIdle ==
    /\ subject = <<>>
    /\ verdict = NoVerdict
    /\ ipVerdict = NoIpVerdict

\* the value `undefined` where a channel object is expected
NoChannel == [type |-> "undefined"]

\* no clearChannel call has been made
ClearChannelIdle ==
    /\ clearChannelPc = "idle"
    /\ nameToClear = <<>>
    /\ channelToClear = NoChannel
    /\ clearChannelSettled = NotSettled
    /\ getChannelRequests = <<>>
    /\ getChannelAnswer = <<>>

\* no searchIntegrations call has been made
SearchIdle ==
    /\ searchPc = "idle"
    /\ integrations = <<>>
    /\ textLength = 0
    /\ ignoreLookupErrors = FALSE
    /\ entities = undefined
    /\ resultsByIntegration = <<>>
    /\ errorsByIntegration = <<>>
    /\ lookups = <<>>
    /\ searchSettled = NotSettled
    /\ parseAnswer = <<>>
    /\ searchRequests = <<>>
    /\ lookupPlan = <<>>

\* the state after `new Polarity()`
ClientInit ==
    /\ isConnected = FALSE
    /\ host = null
    /\ postmanRequest = null
    /\ sessionCalls = <<>>
    /\ applyPc = "idle"
    /\ rows = <<>>
    /\ channelId = 0
    /\ stopOnInvalidData = FALSE
    /\ rowIndex = 1
    /\ data = <<>>
    /\ uploadResult = undefined
    /\ settled = undefined
    /\ requests = <<>>
    /\ pending = {}
    /\ answers = <<>>

Init ==
    ClientInit /\ ClearIdle /\ ApiIdle /\ ValidatorIdle /\ ClearChannelIdle
    /\ SearchIdle

Hosts == {"https://polarity"}

\* the largest number of connect and disconnect calls of a client that
\* connects and logs out again and again
MaxSessionCalls == 3

\* what GET /v2/servers answers with: the attributes of the server have
\* saml-enabled, or have not, or the body is not that of a server at all
ProbeBodies == {"saml-enabled", "no saml-enabled", "no data"}

\* callback arguments (err, response, body) of GET /v2/servers
ProbeResponses ==
    {[err |-> "ECONNRESET", statusCode |-> 0, body |-> undefined]}
    \cup [err : {null}, statusCode : {200, 500}, body : ProbeBodies]

\* the fields of the client that connect and disconnect assign
Session ==
    [isConnected |-> isConnected, host |-> host, postmanRequest |-> postmanRequest]

\* no call of this operation has been made
NoCallOf(op) == \A k \in DOMAIN sessionCalls : sessionCalls[k].op # op

\* the number of connect calls made
ConnectsMade ==
    Cardinality({k \in DOMAIN sessionCalls : sessionCalls[k].op = "connect"})

\* A call of connect or disconnect: pc is the request it waits for ("probe",
\* "auth", "logout") or "ended" when it waits for none, promise the state of
\* the promise it returned, authVersion the local of connect while its
\* authenticate request is under way.  History: status is the status code of
\* the latest answer to a request of the call (0 for none and for a transport
\* error), before is the session at the call, alone tells that no other call
\* was waiting for an answer then.
NewCall(op, pc, promise) ==
    [op |-> op, pc |-> pc, promise |-> promise, authVersion |-> "none",
     status |-> 0, before |-> Session,
     alone |-> \A k \in DOMAIN sessionCalls : sessionCalls[k].pc = "ended"]

\* connect(connectOptions) up to `await this._getAuthAPIVersion(host)`:
\* a new request object, with a cookie jar of its own, is installed and
\* GET /v2/servers is issued.
StartConnect ==
    /\ postmanRequest' = "request" \o ToString(ConnectsMade + 1)
    /\ sessionCalls' = Append(sessionCalls, NewCall("connect", "probe", "pending"))
    /\ UNCHANGED <<isConnected, host>>
    /\ UNCHANGED <<applyVars, clearVars, apiVars, validatorVars, clearChannelVars, searchVars>>

\* the first connect call of the client
ConnectCall == NoCallOf("connect") /\ StartConnect

\* a further connect call
ConnectAgain ==
    /\ ~NoCallOf("connect")
    /\ Len(sessionCalls) < MaxSessionCalls
    /\ StartConnect

\* The callback of GET /v2/servers in _getAuthAPIVersion and, when it
\* resolves, connect up to its authenticate request.  With a transport error
\* the promise is rejected and connect, which awaits it, rejects.  With no
\* error and a status other than 200 the callback evaluates
\* parseErrorToReadableJSON(null), whose Object.getOwnPropertyNames(null)
\* throws a TypeError: the callback ends without resolve or reject.  It
\* ends the same way when the body of a 200 has no data.attributes to read.
AfterProbe(call, resp) ==
    IF resp.err # null
    THEN [call EXCEPT !.pc = "ended", !.promise = "rejected",
                      !.status = resp.statusCode]
    ELSE IF resp.statusCode # 200 \/ resp.body = "no data"
    THEN [call EXCEPT !.pc = "ended", !.status = resp.statusCode]
    ELSE [call EXCEPT !.pc = "auth", !.status = resp.statusCode,
                      !.authVersion = IF resp.body = "saml-enabled" THEN "v2" ELSE "v1"]

\* callback of GET /v2/servers; on success the authenticate POST is issued
ProbeResponse ==
    /\ \E k \in DOMAIN sessionCalls, resp \in ProbeResponses :
          /\ sessionCalls[k].pc = "probe"
          /\ sessionCalls' = [sessionCalls EXCEPT ![k] = AfterProbe(@, resp)]
    /\ UNCHANGED <<isConnected, host, postmanRequest>>
    /\ UNCHANGED <<applyVars, clearVars, apiVars, validatorVars, clearChannelVars, searchVars>>

\* variant: the host is not recorded
Authenticated_NoHost(h) == isConnected' = TRUE /\ UNCHANGED host

\* self.isConnected = true; self.host = connectOptions.host
Authenticated(h) == isConnected' = TRUE /\ host' = h

\* callback of POST /<authVersion>/authenticate
AuthResponse ==
    /\ \E k \in DOMAIN sessionCalls, resp \in Responses, h \in Hosts :
          /\ sessionCalls[k].pc = "auth"
          /\ IF resp.err = null /\ resp.statusCode = 200
             THEN /\ Authenticated(h)
                  /\ sessionCalls' = [sessionCalls EXCEPT ![k] =
                        [@ EXCEPT !.pc = "ended", !.promise = "resolved",
                                  !.status = resp.statusCode,
                                  !.authVersion = "none"]]
             ELSE /\ sessionCalls' = [sessionCalls EXCEPT ![k] =
                        [@ EXCEPT !.pc = "ended", !.promise = "rejected",
                                  !.status = resp.statusCode,
                                  !.authVersion = "none"]]
                  /\ UNCHANGED <<isConnected, host>>
    /\ UNCHANGED postmanRequest
    /\ UNCHANGED <<applyVars, clearVars, apiVars, validatorVars, clearChannelVars, searchVars>>

isDisconnected == ~isConnected

\* disconnect() up to the DELETE /v1/authenticate request
StartDisconnect ==
    /\ sessionCalls' = Append(sessionCalls,
          IF isDisconnected
          THEN NewCall("disconnect", "ended", "rejected")
          ELSE NewCall("disconnect", "logout", "pending"))
    /\ UNCHANGED <<isConnected, host, postmanRequest>>
    /\ UNCHANGED <<applyVars, clearVars, apiVars, validatorVars, clearChannelVars, searchVars>>

\* the first disconnect call of the client
DisconnectCall == NoCallOf("disconnect") /\ StartDisconnect

\* a further disconnect call
DisconnectAgain ==
    /\ ~NoCallOf("disconnect")
    /\ Len(sessionCalls) < MaxSessionCalls
    /\ StartDisconnect

\* this.isConnected = false; this.host = null
LoggedOut == isConnected' = FALSE /\ host' = null

\* callback of DELETE /v1/authenticate
DisconnectResponse ==
    /\ \E k \in DOMAIN sessionCalls, resp \in Responses :
          /\ sessionCalls[k].pc = "logout"
          /\ IF resp.err # null \/ resp.statusCode # 200
             THEN /\ sessionCalls' = [sessionCalls EXCEPT ![k] =
                        [@ EXCEPT !.pc = "ended", !.promise = "rejected",
                                  !.status = resp.statusCode]]
                  /\ UNCHANGED <<isConnected, host>>
             ELSE /\ LoggedOut
                  /\ sessionCalls' = [sessionCalls EXCEPT ![k] =
                        [@ EXCEPT !.pc = "ended", !.promise = "resolved",
                                  !.status = resp.statusCode]]
    /\ UNCHANGED postmanRequest
    /\ UNCHANGED <<applyVars, clearVars, apiVars, validatorVars, clearChannelVars, searchVars>>

\* applyTags(rows, channelId, stopOnInvalidData) from the call to the first
\* await or to the settling of the promise
ApplyTagsCall ==
    /\ applyPc = "idle"
    /\ \E ix \in RowSets, ch \in ChannelIds, stop \in BOOLEAN :
          /\ rows' = [i \in DOMAIN ix |-> RowPool[ix[i]]]
          /\ channelId' = ch
          /\ stopOnInvalidData' = stop
          /\ uploadResult' = undefined
          /\ IF isDisconnected
             THEN /\ applyPc' = "rejected"
                  /\ settled' = DetailObj("Polarity must be connected before trying to getTagsByEntityValue()")
                  /\ UNCHANGED <<rowIndex, data, requests, pending>>
             ELSE Continue(rows', ch, stop, 1, <<>>, pending)
    /\ UNCHANGED answers
    /\ UNCHANGED <<sessionVars, clearVars, apiVars, validatorVars, clearChannelVars, searchVars>>

\* variant: the rejection for a bad status does not carry the batch
UploadRejection_NoPairs(resp, tagEntityPairs) ==
    IF resp.err # null
    THEN Obj({"detail", "err"}, "HTTP Request Error", NoError, 0, undefined, resp.err, <<>>)
    ELSE Obj({"detail", "status", "body"}, "Could not apply tags",
             NoError, resp.statusCode, resp.body, undefined, <<>>)

\* the rejection of _applyTags for an answer that is not a 201
UploadRejection(resp, tagEntityPairs) ==
    IF resp.err # null
    THEN Obj({"detail", "err"}, "HTTP Request Error", NoError, 0, undefined, resp.err, <<>>)
    ELSE Obj({"detail", "status", "body", "tagEntityPairs"}, "Could not apply tags",
             NoError, resp.statusCode, resp.body, undefined, tagEntityPairs)

\* variant: only the first answer is kept
NextUploadResult_KeepFirst(previous, body) ==
    IF previous = undefined THEN body ELSE previous

\* uploadResult = await this._applyTags(data)
NextUploadResult(previous, body) == body

\* callback of the POST /v2/tag-entity-pairs issued by _applyTags, and the
\* continuation of applyTags after its await
ApplyTagsResponse ==
    /\ applyPc \in {"awaitLoop", "awaitFinal"}
    /\ \E i \in pending, resp \in Responses :
          /\ answers' = Append(answers, [request |-> i, response |-> resp])
          /\ IF resp.err = null /\ resp.statusCode = 201
             THEN /\ uploadResult' = NextUploadResult(uploadResult, resp.body)
                  /\ IF applyPc = "awaitLoop"
                     THEN Continue(rows, channelId, stopOnInvalidData,
                                   rowIndex + 1, <<>>, pending \ {i})
                     ELSE /\ applyPc' = "resolved"
                          /\ settled' = uploadResult'
                          /\ pending' = pending \ {i}
                          /\ UNCHANGED <<rowIndex, data, requests>>
             ELSE /\ applyPc' = "rejected"
                  /\ settled' = UploadRejection(resp, requests[i].body.data)
                  /\ pending' = pending \ {i}
                  /\ UNCHANGED <<rowIndex, data, uploadResult, requests>>
    /\ UNCHANGED <<rows, channelId, stopOnInvalidData>>
    /\ UNCHANGED <<sessionVars, clearVars, apiVars, validatorVars, clearChannelVars, searchVars>>

\* One client that connects once and makes one applyTags call.
Next ==
    \/ ConnectCall
    \/ ProbeResponse
    \/ AuthResponse
    \/ ApplyTagsCall
    \/ ApplyTagsResponse

Spec == Init /\ [][Next]_vars

\* The same client, which may also log out at any moment.
SessionNext ==
    \/ Next
    \/ DisconnectCall
    \/ DisconnectResponse

SessionSpec == Init /\ [][SessionNext]_vars

\* A client that connects and logs out several times, the calls overlapping
\* in any way.
LoginNext ==
    \/ ConnectCall
    \/ ConnectAgain
    \/ ProbeResponse
    \/ AuthResponse
    \/ DisconnectCall
    \/ DisconnectAgain
    \/ DisconnectResponse

LoginSpec == Init /\ [][LoginNext]_vars

----------------------------------------------------------------------------
(* lib/polarity.js: clearChannelById, isChannelEmpty, search; lib/error.js *)

CLEAR_CHANNEL_CHECK_INTERVAL == 30000

\* the largest number of is-channel-empty checks the timer starts
MaxChecks == 2

\* the deletion counters a server puts in the body of its DELETE answer
ClearMetas ==
    {[num_context_rows_deleted |-> n, is_channel_deleted |-> FALSE] : n \in {0, 4}}

ServerBody(meta) == [keys |-> {"meta"}, clearComplete |-> FALSE, meta |-> meta]

\* callback arguments (err, response, body) of the DELETE request
ClearResponses ==
    {[err |-> "ECONNRESET", statusCode |-> 0, body |-> NoBody]}
    \cup {[err |-> null, statusCode |-> c, body |-> ServerBody(m)] :
                c \in {200, 202, 500}, m \in ClearMetas}

\* the bodies of the answers to GET /v2/searchable-items: an empty data
\* array, a data array with an item, no data property
CheckBodies ==
    {[keys |-> {"data"}, data |-> <<>>],
     [keys |-> {"data"}, data |-> <<"item">>],
     [keys |-> {}, data |-> <<>>]}

CheckResponses ==
    {[err |-> "ECONNRESET", statusCode |-> 0, body |-> [keys |-> {}, data |-> <<>>]]}
    \cup [err : {null}, statusCode : {200, 500}, body : CheckBodies]

\* the answer held by a check that has not been answered
NoCheckResponse == [err |-> null, statusCode |-> 0, body |-> [keys |-> {}, data |-> <<>>]]

\* the `body` and `response` objects of the DELETE callback, held by reference
BodyRef == [ref |-> "<body>"]
ResponseRef == "<response>"

\* a JavaScript boolean as the value of a promise
Boolean(b) == [boolean |-> b]

\* variant: the payload is a new object that holds clearComplete alone
SetClearComplete_NewObject(body) ==
    [body EXCEPT !.keys = {"clearComplete"}, !.clearComplete = TRUE]

\* body.clearComplete = true
SetClearComplete(body) ==
    [body EXCEPT !.keys = @ \cup {"clearComplete"}, !.clearComplete = TRUE]

\* variant: only a 200 resolves from the DELETE answer
ResolvesDirectly_Only200(statusCode, wait) == statusCode = 200

\* response.statusCode === 200 || (response.statusCode === 202 && waitUntilComplete === false)
ResolvesDirectly(statusCode, wait) ==
    statusCode = 200 \/ (statusCode = 202 /\ wait = FALSE)

\* waitUntilComplete && response.statusCode === 202
StartsPolling(statusCode, wait) == wait /\ statusCode = 202

\* variant: the additional properties are not copied
toError_NoContext(detail, error, additionalProperties) ==
    [keys |-> error.keys \cap {"stack", "inner", "message"},
     message |-> error.message,
     body |-> undefined,
     response |-> undefined]

\* toError(detail, error, additionalProperties): a new object with the stack,
\* inner and message of the error, when it has them, and the additional
\* properties.  detail is assigned to the error, not to the new object.
toError(detail, error, additionalProperties) ==
    [keys |-> (error.keys \cap {"stack", "inner", "message"})
                 \cup additionalProperties.keys,
     message |-> error.message,
     body |-> additionalProperties.body,
     response |-> additionalProperties.response]

\* the settling of the promise of search(options) in the request callback
SearchOutcome(resp) ==
    IF resp.err # null
    THEN RejectedWith(Obj({"detail", "err"}, "HTTP Request Error",
                          NoError, 0, undefined, resp.err, <<>>))
    ELSE IF resp.statusCode = 200
    THEN ResolvedWith(resp.body)
    ELSE RejectedWith(Obj({"detail", "status", "body"}, "Failed to search",
                          NoError, resp.statusCode, resp.body, undefined, <<>>))

\* variant: the channel is reported empty when the answer has no data
IsEmptyResult_NoData(result) == "data" \notin result.keys

\* variant: the channel is reported empty unless the answer has items
IsEmptyResult_NoItems(result) == "data" \notin result.keys \/ Len(result.data) = 0

\* result.data && result.data.length === 0
IsEmptyResult(result) == "data" \in result.keys /\ Len(result.data) = 0

\* the promise executor of clearChannelById up to the DELETE request
ClearChannelByIdStart(wait) ==
    /\ waitUntilComplete' = wait
    /\ IF isDisconnected
       THEN /\ clearPc' = "rejected"
            /\ clearSettled' = RejectedWith(DetailObj(
                  "Polarity must be connected before trying to clear a channel"))
            /\ UNCHANGED clearRequests
       ELSE /\ clearPc' = "deleting"
            /\ clearRequests' = clearRequests + 1
            /\ UNCHANGED clearSettled
    /\ UNCHANGED <<clearResponse, clearBody, pollingInterval, checks>>

\* clearChannelById(channelId, waitUntilComplete) up to the DELETE request
ClearChannelByIdCall ==
    /\ clearPc = "idle"
    /\ \E wait \in BOOLEAN : ClearChannelByIdStart(wait)
    /\ UNCHANGED <<sessionVars, applyVars, apiVars, validatorVars, clearChannelVars, searchVars>>

\* callback of the DELETE request
ClearChannelResponse ==
    /\ clearPc = "deleting"
    /\ \E resp \in ClearResponses :
          /\ clearResponse' = resp
          /\ IF resp.err # null
             THEN /\ clearPc' = "rejected"
                  /\ clearSettled' = RejectedWith(
                        Obj({"detail", "err"}, "HTTP Request Error",
                            NoError, 0, undefined, resp.err, <<>>))
                  /\ clearBody' = resp.body
                  /\ UNCHANGED pollingInterval
             ELSE IF ResolvesDirectly(resp.statusCode, waitUntilComplete)
             THEN /\ clearBody' = SetClearComplete(resp.body)
                  /\ clearPc' = "resolved"
                  /\ clearSettled' = ResolvedWith(BodyRef)
                  /\ UNCHANGED pollingInterval
             ELSE IF StartsPolling(resp.statusCode, waitUntilComplete)
             THEN /\ pollingInterval' = "active"
                  /\ clearPc' = "polling"
                  /\ clearBody' = resp.body
                  /\ UNCHANGED clearSettled
             ELSE /\ clearPc' = "rejected"
                  /\ clearSettled' = RejectedWith(
                        Obj({"detail", "status", "body"}, "Failed to clear channel",
                            NoError, resp.statusCode, BodyRef, undefined, <<>>))
                  /\ clearBody' = resp.body
                  /\ UNCHANGED pollingInterval
    /\ UNCHANGED <<waitUntilComplete, checks, clearRequests>>
    /\ UNCHANGED <<sessionVars, applyVars, apiVars, validatorVars, clearChannelVars, searchVars>>

\* variant: the timer is left running when the channel is found empty
PollingSucceeded_KeepsTimer ==
    /\ clearBody' = SetClearComplete(clearBody)
    /\ IF clearPc = "polling"
       THEN /\ clearPc' = "resolved"
            /\ clearSettled' = ResolvedWith(BodyRef)
       ELSE UNCHANGED <<clearPc, clearSettled>>
    /\ UNCHANGED pollingInterval

\* the timer callback after isChannelEmpty returned true; resolve has no
\* effect on a promise that has settled
PollingSucceeded ==
    /\ pollingInterval' = "cleared"
    /\ clearBody' = SetClearComplete(clearBody)
    /\ IF clearPc = "polling"
       THEN /\ clearPc' = "resolved"
            /\ clearSettled' = ResolvedWith(BodyRef)
       ELSE UNCHANGED <<clearPc, clearSettled>>

\* variant: polling is given up, with a rejection, after a check that found
\* the channel not empty
PollingGoesOn_GivesUp ==
    /\ pollingInterval' = IF checks = <<>> THEN pollingInterval ELSE "cleared"
    /\ IF clearPc = "polling" /\ checks # <<>>
       THEN /\ clearPc' = "rejected"
            /\ clearSettled' = RejectedWith(DetailObj("Timed out"))
       ELSE UNCHANGED <<clearPc, clearSettled>>
    /\ UNCHANGED clearBody

\* the timer callback when a check is under way or found the channel not
\* empty: nothing changes, the timer stays
PollingGoesOn == UNCHANGED <<pollingInterval, clearPc, clearSettled, clearBody>>

\* the catch block of the timer callback; reject has no effect on a promise
\* that has settled
PollingFailed(error) ==
    /\ pollingInterval' = "cleared"
    /\ IF clearPc = "polling"
       THEN /\ clearPc' = "rejected"
            /\ clearSettled' = RejectedWith(
                  toError("Polling of channel status failed", error,
                          [keys |-> {"body", "response"},
                           body |-> BodyRef, response |-> ResponseRef]))
       ELSE UNCHANGED <<clearPc, clearSettled>>
    /\ UNCHANGED clearBody

\* One firing of the interval timer: isChannelEmpty calls search, which
\* rejects at once when the client is disconnected and issues its GET
\* request otherwise.
Tick ==
    /\ pollingInterval = "active"
    /\ Len(checks) < MaxChecks
    /\ IF isDisconnected
       THEN /\ checks' = Append(checks, [state |-> "refused",
                                         response |-> NoCheckResponse])
            /\ PollingFailed(DetailObj(
                  "Polarity must be connected before trying to clear a channel"))
       ELSE /\ checks' = Append(checks, [state |-> "pending",
                                         response |-> NoCheckResponse])
            /\ UNCHANGED <<pollingInterval, clearPc, clearSettled, clearBody>>
    /\ UNCHANGED <<waitUntilComplete, clearResponse, clearRequests>>
    /\ UNCHANGED <<sessionVars, applyVars, apiVars, validatorVars, clearChannelVars, searchVars>>

\* callback of the GET request of one check, and the rest of the timer
\* callback that awaited it
CheckResponse ==
    /\ \E i \in 1..Len(checks), resp \in CheckResponses :
          /\ checks[i].state = "pending"
          /\ checks' = [checks EXCEPT ![i] = [state |-> "answered", response |-> resp]]
          /\ IF SearchOutcome(resp).kind = "rejected"
             THEN PollingFailed(SearchOutcome(resp).value)
             ELSE IF IsEmptyResult(SearchOutcome(resp).value)
             THEN PollingSucceeded
             ELSE PollingGoesOn
    /\ UNCHANGED <<waitUntilComplete, clearResponse, clearRequests>>
    /\ UNCHANGED <<sessionVars, applyVars, apiVars, validatorVars, clearChannelVars, searchVars>>

\* One client that connects, may log out, and makes one clearChannelById call.
ClearNext ==
    \/ ConnectCall
    \/ ProbeResponse
    \/ AuthResponse
    \/ DisconnectCall
    \/ DisconnectResponse
    \/ ClearChannelByIdCall
    \/ ClearChannelResponse
    \/ Tick
    \/ CheckResponse

ClearSpec == Init /\ [][ClearNext]_vars

\* The timer keeps firing while it is active and the transport answers every
\* request.
ClearLiveSpec == ClearSpec /\ WF_vars(Tick) /\ WF_vars(CheckResponse)

----------------------------------------------------------------------------
(* lib/polarity.js: search, getUsers, createUser *)

\* the options of getUsers: 0 stands for an absent pageSize / pageNumber
GetUsersOptions == [pageSize : {0, 25}, pageNumber : {0, 2}]

\* the query string getUsers builds: page[size] only when a page size is
\* given, page[number] defaulting to 1
GetUsersQs(options) ==
    [keys |-> IF options.pageSize # 0 THEN {"page[size]", "page[number]"}
              ELSE {"page[number]"},
     page_size |-> options.pageSize,
     page_number |-> IF options.pageNumber # 0 THEN options.pageNumber ELSE 1]

\* the settling of the promise of getUsers(options) in the request callback
GetUsersOutcome(resp) ==
    IF resp.err # null
    THEN RejectedWith(Obj({"detail", "err"}, "HTTP Request Error",
                          NoError, 0, undefined, resp.err, <<>>))
    ELSE IF resp.statusCode = 200
    THEN ResolvedWith(resp.body)
    ELSE RejectedWith(Obj({"detail", "status", "body"}, "Failed to get users",
                          NoError, resp.statusCode, resp.body, undefined, <<>>))

\* what a call changes when it settles without issuing a request
SettleAtCall(op, outcome) ==
    /\ apiPc' = [apiPc EXCEPT ![op] = outcome.kind]
    /\ apiSettled' = [apiSettled EXCEPT ![op] = outcome]
    /\ UNCHANGED <<apiRequests, apiAnswer>>

\* what a call changes when it issues its request
IssueRequest(op, request) ==
    /\ apiPc' = [apiPc EXCEPT ![op] = "waiting"]
    /\ apiRequests' = Append(apiRequests, request)
    /\ UNCHANGED <<apiSettled, apiAnswer>>

\* search(options) up to its GET request
SearchCall ==
    /\ apiPc["search"] = "idle"
    /\ apiConnectedAtCall' = [apiConnectedAtCall EXCEPT !["search"] = isConnected]
    /\ UNCHANGED apiArg
    /\ IF isDisconnected
       THEN SettleAtCall("search", RejectedWith(DetailObj(
                "Polarity must be connected before trying to clear a channel")))
       ELSE IssueRequest("search",
                [op |-> "search", uri |-> <<host, "/v2/searchable-items">>,
                 method |-> "GET"])
    /\ UNCHANGED <<sessionVars, applyVars, clearVars, validatorVars, clearChannelVars, searchVars>>

\* callback of the GET request of search
SearchResponse ==
    /\ apiPc["search"] = "waiting"
    /\ \E resp \in CheckResponses :
          /\ apiPc' = [apiPc EXCEPT !["search"] = SearchOutcome(resp).kind]
          /\ apiSettled' = [apiSettled EXCEPT !["search"] = SearchOutcome(resp)]
          /\ apiAnswer' = [apiAnswer EXCEPT !["search"] = <<resp>>]
    /\ UNCHANGED <<apiRequests, apiConnectedAtCall, apiArg>>
    /\ UNCHANGED <<sessionVars, applyVars, clearVars, validatorVars, clearChannelVars, searchVars>>

\* getUsers(options) up to its GET request
GetUsersCall ==
    /\ apiPc["getUsers"] = "idle"
    /\ apiConnectedAtCall' = [apiConnectedAtCall EXCEPT !["getUsers"] = isConnected]
    /\ UNCHANGED apiArg
    /\ \E options \in GetUsersOptions :
          IF isDisconnected
          THEN SettleAtCall("getUsers", RejectedWith(DetailObj(
                   "Polarity must be connected before trying to get users")))
          ELSE IssueRequest("getUsers",
                   [op |-> "getUsers", uri |-> <<host, "/v2/users">>,
                    method |-> "GET", qs |-> GetUsersQs(options)])
    /\ UNCHANGED <<sessionVars, applyVars, clearVars, validatorVars, clearChannelVars, searchVars>>

\* callback of the GET request of getUsers
GetUsersResponse ==
    /\ apiPc["getUsers"] = "waiting"
    /\ \E resp \in Responses :
          /\ apiPc' = [apiPc EXCEPT !["getUsers"] = GetUsersOutcome(resp).kind]
          /\ apiSettled' = [apiSettled EXCEPT !["getUsers"] = GetUsersOutcome(resp)]
          /\ apiAnswer' = [apiAnswer EXCEPT !["getUsers"] = <<resp>>]
    /\ UNCHANGED <<apiRequests, apiConnectedAtCall, apiArg>>
    /\ UNCHANGED <<sessionVars, applyVars, clearVars, validatorVars, clearChannelVars, searchVars>>

\* createUser(attributes): the function has no connection test.  Its
\* destructuring declares `isgLocal`, and the object literal of the next
\* statement reads the undeclared `isLocal`: a ReferenceError is thrown in
\* the promise executor, which rejects the promise before any request.
CreateUserCall ==
    /\ apiPc["createUser"] = "idle"
    /\ apiConnectedAtCall' = [apiConnectedAtCall EXCEPT !["createUser"] = isConnected]
    /\ UNCHANGED apiArg
    /\ SettleAtCall("createUser", RejectedWith(NewError(<<"isLocal is not defined">>)))
    /\ UNCHANGED <<sessionVars, applyVars, clearVars, validatorVars, clearChannelVars, searchVars>>

\* One client that connects, may log out, and makes one call of each of
\* search, getUsers and createUser.
ApiNext ==
    \/ ConnectCall
    \/ ProbeResponse
    \/ AuthResponse
    \/ DisconnectCall
    \/ DisconnectResponse
    \/ SearchCall
    \/ SearchResponse
    \/ GetUsersCall
    \/ GetUsersResponse
    \/ CreateUserCall

ApiSpec == Init /\ [][ApiNext]_vars

----------------------------------------------------------------------------
(* The other operations that issue one request and settle in its callback *)

ChannelNames == {<<"O", "p", "s">>, <<"o", "p", "s">>}
IntegrationIds == {"virustotal"}
AnnotationIds == {42}
Texts == {<<"1", ".", "2", ".", "3", ".", "4">>}
ParsedEntities == {"[8.8.8.8, google.com]"}

\* variant: a 201 is taken for a success by every operation
CallbackOutcome_Any201(resp, successCode, failureDetail) ==
    IF resp.err # null
    THEN RejectedWith(Obj({"detail", "err"}, "HTTP Request Error",
                          NoError, 0, undefined, resp.err, <<>>))
    ELSE IF resp.statusCode = successCode \/ resp.statusCode = 201
    THEN ResolvedWith(resp.body)
    ELSE RejectedWith(Obj({"detail", "status", "body"}, failureDetail,
                          NoError, resp.statusCode, resp.body, undefined, <<>>))

\* the settling of a promise in the callback (err, response, body) of its
\* request: a transport error, the success code of the operation, any other
\* status
CallbackOutcome(resp, successCode, failureDetail) ==
    IF resp.err # null
    THEN RejectedWith(Obj({"detail", "err"}, "HTTP Request Error",
                          NoError, 0, undefined, resp.err, <<>>))
    ELSE IF resp.statusCode = successCode
    THEN ResolvedWith(resp.body)
    ELSE RejectedWith(Obj({"detail", "status", "body"}, failureDetail,
                          NoError, resp.statusCode, resp.body, undefined, <<>>))

\* a call up to its request: the connection test, then the request
ApiCall(op, arg, guardDetail, request) ==
    /\ apiPc[op] = "idle"
    /\ apiConnectedAtCall' = [apiConnectedAtCall EXCEPT ![op] = isConnected]
    /\ apiArg' = [apiArg EXCEPT ![op] = arg]
    /\ IF isDisconnected
       THEN SettleAtCall(op, RejectedWith(DetailObj(guardDetail)))
       ELSE IssueRequest(op, request)
    /\ UNCHANGED <<sessionVars, applyVars, clearVars, validatorVars, clearChannelVars, searchVars>>

\* the callback of the request of a call, settling its promise
ApiSettle(op, resp, outcome) ==
    /\ apiPc' = [apiPc EXCEPT ![op] = outcome.kind]
    /\ apiSettled' = [apiSettled EXCEPT ![op] = outcome]
    /\ apiAnswer' = [apiAnswer EXCEPT ![op] = <<resp>>]
    /\ UNCHANGED <<apiRequests, apiConnectedAtCall, apiArg>>
    /\ UNCHANGED <<sessionVars, applyVars, clearVars, validatorVars, clearChannelVars, searchVars>>
\* createChannel(channelName) up to its POST request
CreateChannelCall ==
    \E channelName \in ChannelNames :
        ApiCall("createChannel", channelName,
                "Polarity must be connected before trying to create a channel",
                [op |-> "createChannel", uri |-> <<host, "/v2/channels">>, method |-> "POST",
                 body |-> [type |-> "channels", channel_name |-> channelName,
                           description |-> <<>>]])

\* callback of the POST request of createChannel
CreateChannelResponse ==
    /\ apiPc["createChannel"] = "waiting"
    /\ \E resp \in Responses :
          ApiSettle("createChannel", resp, CallbackOutcome(resp, 201, "Failed to create channel"))

\* getIntegrations() up to its GET request
GetIntegrationsCall ==
    ApiCall("getIntegrations", <<>>,
            "Polarity must be connected before trying to get integrations",
            [op |-> "getIntegrations", uri |-> <<host, "/v2/integrations">>,
             method |-> "GET"])

\* callback of the GET request of getIntegrations
GetIntegrationsResponse ==
    /\ apiPc["getIntegrations"] = "waiting"
    /\ \E resp \in Responses :
          ApiSettle("getIntegrations", resp, CallbackOutcome(resp, 200, "Failed to get integrations"))

\* getIntegrationOptions(integrationId) up to its GET request
GetIntegrationOptionsCall ==
    \E integrationId \in IntegrationIds :
        ApiCall("getIntegrationOptions", integrationId,
                "Polarity must be connected before trying to clear a channel",
                [op |-> "getIntegrationOptions", uri |-> <<host, "/v2/integration-options">>,
                 method |-> "GET", qs |-> [filter_integration_id |-> integrationId]])

\* callback of the GET request of getIntegrationOptions
GetIntegrationOptionsResponse ==
    /\ apiPc["getIntegrationOptions"] = "waiting"
    /\ \E resp \in Responses :
          ApiSettle("getIntegrationOptions", resp, CallbackOutcome(resp, 200, "Failed to get integration options"))

\* restartIntegrationById(integrationId) up to its GET request
RestartIntegrationByIdCall ==
    \E integrationId \in IntegrationIds :
        ApiCall("restartIntegrationById", integrationId,
                "Polarity must be connected before trying to restart an integration",
                [op |-> "restartIntegrationById",
                 uri |-> <<host, "/v2/integrations/", integrationId, "/restart">>,
                 method |-> "GET"])

\* callback of the GET request of restartIntegrationById
RestartIntegrationByIdResponse ==
    /\ apiPc["restartIntegrationById"] = "waiting"
    /\ \E resp \in Responses :
          ApiSettle("restartIntegrationById", resp, CallbackOutcome(resp, 200, "Failed to restart integration"))

\* parseEntities(text) up to its POST request
ParseEntitiesCall ==
    \E text \in Texts :
        ApiCall("parseEntities", text,
                "Polarity must be connected before trying to parseEntities",
                [op |-> "parseEntities", uri |-> <<host, "/v2/parsed-entities">>,
                 method |-> "POST", body |-> [text |-> text]])

\* callback of the POST request of parseEntities
ParseEntitiesResponse ==
    /\ apiPc["parseEntities"] = "waiting"
    /\ \E resp \in Responses :
          ApiSettle("parseEntities", resp, CallbackOutcome(resp, 200, "Failed to parse text"))

\* integrationLookup(integrationId, parsedEntities) up to its POST request
IntegrationLookupCall ==
    \E integrationId \in IntegrationIds, parsedEntities \in ParsedEntities :
        ApiCall("integrationLookup", integrationId,
                "Polarity must be connected before trying to run an integration lookup",
                [op |-> "integrationLookup",
                 uri |-> <<host, "/v2/integration-lookups/", integrationId>>,
                 method |-> "POST",
                 body |-> [type |-> "integration-lookups", entities |-> parsedEntities]])

\* callback of the POST request of integrationLookup
IntegrationLookupResponse ==
    /\ apiPc["integrationLookup"] = "waiting"
    /\ \E resp \in Responses :
          ApiSettle("integrationLookup", resp,
                    CallbackOutcome(resp, 200,
                        "Failed to run integration lookup for "
                            \o apiArg["integrationLookup"]))

\* deleteAnnotationById(annotationId) up to its DELETE request
DeleteAnnotationByIdCall ==
    \E annotationId \in AnnotationIds :
        ApiCall("deleteAnnotationById", annotationId,
                "Polarity must be connected before trying to delete an annotation",
                [op |-> "deleteAnnotationById",
                 uri |-> <<host, "/v2/tag-entity-pairs/", annotationId>>,
                 method |-> "DELETE"])

\* callback of the DELETE request of deleteAnnotationById
DeleteAnnotationByIdResponse ==
    /\ apiPc["deleteAnnotationById"] = "waiting"
    /\ \E resp \in Responses :
          ApiSettle("deleteAnnotationById", resp, CallbackOutcome(resp, 200, "Failed to delete annotation"))


\* String.prototype.toLowerCase, on the letters the channel names are made of
ToLowerCase(str) ==
    [i \in 1..Len(str) |->
        CASE str[i] = "O" -> "o"
          [] str[i] = "P" -> "p"
          [] str[i] = "S" -> "s"
          [] OTHER -> str[i]]

\* the channels the server knows
Channels ==
    {[type |-> "channels", id |-> 7, channel_name |-> <<"o", "p", "s">>],
     [type |-> "channels", id |-> 8, channel_name |-> <<"O", "p", "s">>]}

\* the `data` arrays of the answers to GET /v2/channels
ChannelLists == UNION {[1..n -> Channels] : n \in 0..2}

\* callback arguments (err, response, body) of GET /v2/channels
ChannelResponses ==
    {[err |-> "ECONNRESET", statusCode |-> 0, body |-> [data |-> <<>>]]}
    \cup {[err |-> null, statusCode |-> c, body |-> [data |-> l]] :
             c \in {200, 500}, l \in ChannelLists}

\* body.data.find(channel => channel.attributes['channel-name'] === channelName)
FindChannel(channels, channelName) ==
    IF \E i \in 1..Len(channels) : channels[i].channel_name = channelName
    THEN channels[CHOOSE i \in 1..Len(channels) :
                     /\ channels[i].channel_name = channelName
                     /\ \A j \in 1..(i - 1) : channels[j].channel_name # channelName]
    ELSE NoChannel

\* the settling of the promise of getChannel(channelName) in the request
\* callback
GetChannelOutcome(channelName, resp) ==
    IF resp.err # null
    THEN RejectedWith(Obj({"detail", "err"}, "HTTP Request Error",
                          NoError, 0, undefined, resp.err, <<>>))
    ELSE IF resp.statusCode = 200
    THEN ResolvedWith(FindChannel(resp.body.data, channelName))
    ELSE RejectedWith(Obj({"detail", "status", "body"},
                          <<"Failed to get channel \"", channelName, "\"">>,
                          NoError, resp.statusCode, resp.body, undefined, <<>>))

\* the GET request of getChannel(channelName)
GetChannelRequest(channelName) ==
    [op |-> "getChannel", uri |-> <<host, "/v2/channels">>, method |-> "GET",
     qs |-> [filter_channel_name |-> ToLowerCase(channelName)]]

\* getChannel(channelName) up to its GET request
GetChannelCall ==
    \E channelName \in ChannelNames :
        ApiCall("getChannel", channelName,
                "Polarity must be connected before trying to get a channel id",
                GetChannelRequest(channelName))

\* callback of the GET request of getChannel
GetChannelResponse ==
    /\ apiPc["getChannel"] = "waiting"
    /\ \E resp \in ChannelResponses :
          ApiSettle("getChannel", resp, GetChannelOutcome(apiArg["getChannel"], resp))

OptionNames == {"apiKey"}

\* optionAttributes, each property given by what typeof returns for it
OptionAttributes ==
    [admin_only : {"boolean", "undefined"}, user_can_edit : {"boolean", "string"},
     value : {"string", "undefined"}]

\* the three tests updateIntegrationOption makes on optionAttributes, in
\* order: the detail of the first that fails, or NoError.  The message
\* writes the name of the property between backquotes.
OptionAttributesError(optionAttributes) ==
    IF optionAttributes.admin_only # "boolean"
    THEN <<"optionAttributes must include an ", "admin-only", " boolean property">>
    ELSE IF optionAttributes.user_can_edit # "boolean"
    THEN <<"optionAttributes must include an ", "user-can-edit", " boolean property">>
    ELSE IF optionAttributes.value = "undefined"
    THEN <<"optionAttributes must include an ", "value", " property">>
    ELSE NoError

\* updateIntegrationOption(integrationId, optionName, optionAttributes) up to
\* its PATCH request
UpdateIntegrationOptionCall ==
    /\ apiPc["updateIntegrationOption"] = "idle"
    /\ apiConnectedAtCall' =
          [apiConnectedAtCall EXCEPT !["updateIntegrationOption"] = isConnected]
    /\ \E integrationId \in IntegrationIds, optionName \in OptionNames,
          optionAttributes \in OptionAttributes :
          /\ apiArg' = [apiArg EXCEPT !["updateIntegrationOption"] = optionAttributes]
          /\ IF isDisconnected
             THEN SettleAtCall("updateIntegrationOption", RejectedWith(DetailObj(
                      "Polarity must be connected before trying to update an integration option")))
             ELSE IF OptionAttributesError(optionAttributes) # NoError
             THEN SettleAtCall("updateIntegrationOption", RejectedWith(DetailObj(
                      OptionAttributesError(optionAttributes))))
             ELSE IssueRequest("updateIntegrationOption",
                      [op |-> "updateIntegrationOption",
                       uri |-> <<host, "/v2/integration-options">>,
                       method |-> "PATCH",
                       body |-> [type |-> "integration-options",
                                 id |-> <<integrationId, "-", optionName>>,
                                 attributes |-> optionAttributes]])
    /\ UNCHANGED <<sessionVars, applyVars, clearVars, validatorVars, clearChannelVars, searchVars>>

\* callback of the PATCH request of updateIntegrationOption
UpdateIntegrationOptionResponse ==
    /\ apiPc["updateIntegrationOption"] = "waiting"
    /\ \E resp \in Responses :
          ApiSettle("updateIntegrationOption", resp,
                    CallbackOutcome(resp, 200, "Failed to update integration option"))

\* clearChannel(channelName) up to `await this.getChannel(channelName)`
ClearChannelCall ==
    /\ clearChannelPc = "idle"
    /\ \E name \in ChannelNames :
          /\ nameToClear' = name
          /\ IF isDisconnected
             THEN /\ clearChannelPc' = "rejected"
                  /\ clearChannelSettled' = RejectedWith(DetailObj(
                        "Polarity must be connected before trying to clear a channel by name"))
                  /\ UNCHANGED getChannelRequests
             ELSE /\ clearChannelPc' = "gettingChannel"
                  /\ getChannelRequests' =
                        Append(getChannelRequests, GetChannelRequest(name))
                  /\ UNCHANGED clearChannelSettled
    /\ UNCHANGED <<channelToClear, getChannelAnswer>>
    /\ UNCHANGED <<sessionVars, applyVars, clearVars, apiVars, validatorVars, searchVars>>

\* clearChannel after its await, getChannel having settled with outcome: a
\* rejection is passed on, no channel resolves with false,
\* a channel is handed to clearChannelById(channel.id), which waits until
\* the channel is clear
ClearChannelContinue(resp, outcome) ==
    /\ getChannelAnswer' = <<resp>>
    /\ IF outcome.kind = "rejected"
       THEN /\ clearChannelPc' = "rejected"
            /\ clearChannelSettled' = outcome
            /\ UNCHANGED <<channelToClear, clearVars>>
       ELSE IF outcome.value = NoChannel
       THEN /\ clearChannelPc' = "resolved"
            /\ clearChannelSettled' = ResolvedWith(Boolean(FALSE))
            /\ UNCHANGED <<channelToClear, clearVars>>
       ELSE /\ clearChannelPc' = "clearing"
            /\ channelToClear' = outcome.value
            /\ ClearChannelByIdStart(TRUE)
            /\ UNCHANGED clearChannelSettled
    /\ UNCHANGED <<nameToClear, getChannelRequests>>
    /\ UNCHANGED <<sessionVars, applyVars, apiVars, validatorVars, searchVars>>

\* callback of the GET request of the getChannel call of clearChannel, and
\* the continuation of clearChannel
ClearChannelGetResponse ==
    /\ clearChannelPc = "gettingChannel"
    /\ clearPc = "idle"
    /\ \E resp \in ChannelResponses :
          ClearChannelContinue(resp, GetChannelOutcome(nameToClear, resp))

\* The promise of clearChannel: `resolve(await this.clearChannelById(id))`
\* settles it as the promise of clearChannelById settles, the catch passing
\* a rejection on.
ClearChannelPromise ==
    IF clearChannelPc = "clearing" THEN clearSettled ELSE clearChannelSettled

\* no operation has been called
NoCallYet ==
    /\ applyPc = "idle"
    /\ clearPc = "idle"
    /\ clearChannelPc = "idle"
    /\ \A op \in ApiOps : apiPc[op] = "idle"

\* One client that connects once and makes one call of one operation.
CallNext ==
    \/ ConnectCall
    \/ ProbeResponse
    \/ AuthResponse
    \/ NoCallYet /\ ApplyTagsCall
    \/ ApplyTagsResponse
    \/ NoCallYet /\ ClearChannelByIdCall
    \/ ClearChannelResponse
    \/ Tick
    \/ CheckResponse
    \/ NoCallYet /\ SearchCall
    \/ SearchResponse
    \/ NoCallYet /\ GetUsersCall
    \/ GetUsersResponse
    \/ NoCallYet /\ CreateUserCall
    \/ NoCallYet /\ CreateChannelCall
    \/ CreateChannelResponse
    \/ NoCallYet /\ GetChannelCall
    \/ GetChannelResponse
    \/ NoCallYet /\ GetIntegrationsCall
    \/ GetIntegrationsResponse
    \/ NoCallYet /\ GetIntegrationOptionsCall
    \/ GetIntegrationOptionsResponse
    \/ NoCallYet /\ RestartIntegrationByIdCall
    \/ RestartIntegrationByIdResponse
    \/ NoCallYet /\ UpdateIntegrationOptionCall
    \/ UpdateIntegrationOptionResponse
    \/ NoCallYet /\ ParseEntitiesCall
    \/ ParseEntitiesResponse
    \/ NoCallYet /\ IntegrationLookupCall
    \/ IntegrationLookupResponse
    \/ NoCallYet /\ DeleteAnnotationByIdCall
    \/ DeleteAnnotationByIdResponse
    \/ NoCallYet /\ ClearChannelCall
    \/ ClearChannelGetResponse

CallSpec == Init /\ [][CallNext]_vars

----------------------------------------------------------------------------
(* searchIntegrations *)

\* the literals of searchIntegrations: the longest text it accepts and the
\* limit it hands to async.eachLimit
MaxTextLength == 5000
LookupLimit == 10

IntegrationId(i) == "integration" \o ToString(i)

IntegrationCounts == {0, 2, MaxIntegrations}

IntegrationLists ==
    {[i \in 1..n |-> IntegrationId(i)] : n \in IntegrationCounts}

TextLengths == {MaxTextLength, MaxTextLength + 1}

\* callback arguments (err, response, body) of POST /v2/parsed-entities
ParseResponses ==
    {[err |-> "ECONNRESET", statusCode |-> 0, body |-> [entities |-> undefined]]}
    \cup {[err |-> null, statusCode |-> c, body |-> [entities |-> e]] :
             c \in {200, 500}, e \in ParsedEntities}

\* What the server does with the lookup of one integration: it answers 200
\* with results, answers 200 with a body that has no data, answers 500, or
\* the transport fails.
LookupKinds == {"results", "nodata", "status", "error"}

\* callback arguments (err, response, body) of the lookup request of an
\* integration
LookupAnswer(kind, integrationId) ==
    CASE kind = "results" ->
            [err |-> null, statusCode |-> 200,
             body |-> [keys |-> {"data"}, results |-> <<"result of " \o integrationId>>]]
      [] kind = "nodata" ->
            [err |-> null, statusCode |-> 200, body |-> [keys |-> {}, results |-> <<>>]]
      [] kind = "status" ->
            [err |-> null, statusCode |-> 500,
             body |-> [keys |-> {"errors"}, results |-> <<>>]]
      [] OTHER ->
            [err |-> "ECONNRESET", statusCode |-> 0, body |-> [keys |-> {}, results |-> <<>>]]

\* the answers of the server, by the position of the integration: every
\* lookup succeeds; the first fails; the second and the last fail; the first
\* has no data and the second fails
LookupPlans ==
    {[i \in 1..MaxIntegrations |-> "results"],
     [i \in 1..MaxIntegrations |-> IF i = 1 THEN "status" ELSE "results"],
     [i \in 1..MaxIntegrations |->
         IF i = 2 THEN "error" ELSE IF i = MaxIntegrations THEN "status" ELSE "results"],
     [i \in 1..MaxIntegrations |->
         IF i = 1 THEN "nodata" ELSE IF i = 2 THEN "error" ELSE "results"]}

\* { details }: the rejection of a text that is too long
DetailsObj(details) ==
    [details |-> details]
        @@ Obj({"details"}, undefined, NoError, 0, undefined, undefined, <<>>)

\* a promise settles once: a later resolve or reject changes nothing
Settle(promise, outcome) == IF promise.kind = "none" THEN outcome ELSE promise

\* the object with one empty array for each integration id
EmptyByIntegration(ids) == [id \in {ids[i] : i \in 1..Len(ids)} |-> <<>>]

\* resultsByIntegration once `__errors` is assigned
SearchValue(results, errors) ==
    [keys |-> DOMAIN results \cup {"__errors"}, results |-> results, __errors |-> errors]

\* the lookup request of integrationLookup(integrationId, entities)
LookupRequest(integrationId, parsedEntities) ==
    [op |-> "integrationLookup",
     uri |-> <<host, "/v2/integration-lookups/", integrationId>>,
     method |-> "POST",
     body |-> [type |-> "integration-lookups", entities |-> parsedEntities]]

\* what the iteratee catches for an answer: the rejection of
\* integrationLookup, or the TypeError of reading response.data.attributes
\* when the body has no data; nothing when the lookup succeeded
IterateeError(integrationId, resp) ==
    IF resp.err # null \/ resp.statusCode # 200
    THEN <<CallbackOutcome(resp, 200,
               "Failed to run integration lookup for " \o integrationId).value>>
    ELSE IF "data" \notin resp.body.keys
    THEN <<NewError(<<"Cannot read properties of undefined (reading 'attributes')">>)>>
    ELSE <<>>

Running(l) == Cardinality({i \in 1..Len(l) : l[i] = "running"})

AllDone(l) == \A i \in 1..Len(l) : l[i] = "done"

\* variant: every iteratee is started at once
Replenished_NoLimit(l) ==
    [i \in 1..Len(l) |-> IF l[i] = "waiting" THEN "running" ELSE l[i]]

\* async.eachLimit: iteratees are started in the order of the array while
\* fewer than the limit are running
Replenished(l) ==
    [i \in 1..Len(l) |->
        IF /\ l[i] = "waiting"
           /\ Cardinality({j \in 1..(i - 1) : l[j] = "waiting"}) < LookupLimit - Running(l)
        THEN "running" ELSE l[i]]

\* the positions that l2 starts, in order
Started(l, l2) ==
    SelectSeq([i \in 1..Len(l) |-> i], LAMBDA i : l[i] = "waiting" /\ l2[i] = "running")

\* the rest of a turn of searchIntegrations once the state of the iteratees
\* is l: resolve(resultsByIntegration) when all of them have ended
SearchContinue(l, results, errors, promise, started, parsedEntities) ==
    /\ lookups' = l
    /\ resultsByIntegration' = results
    /\ errorsByIntegration' = errors
    /\ searchRequests' =
          searchRequests \o
          [k \in 1..Len(started) |->
              LookupRequest(integrations[started[k]], parsedEntities)]
    /\ IF AllDone(l)
       THEN /\ searchPc' = "finished"
            /\ searchSettled' = Settle(promise, ResolvedWith(SearchValue(results, errors)))
       ELSE /\ searchPc' = "lookups"
            /\ searchSettled' = promise

NotConnectedLookup ==
    DetailObj("Polarity must be connected before trying to run an integration lookup")

\* async.eachLimit starting the iteratees it can.  On a client that is not
\* connected integrationLookup rejects at once, so every iteratee that has
\* not started ends in this turn with that rejection.
RunLookups(l, results, errors, promise, parsedEntities) ==
    IF isDisconnected
    THEN SearchContinue(
             [i \in 1..Len(l) |-> IF l[i] = "waiting" THEN "done" ELSE l[i]],
             results,
             IF ignoreLookupErrors
             THEN [id \in DOMAIN errors |->
                      IF \E i \in 1..Len(l) : l[i] = "waiting" /\ integrations[i] = id
                      THEN errors[id] \o <<NotConnectedLookup>> ELSE errors[id]]
             ELSE errors,
             IF ~ignoreLookupErrors /\ \E i \in 1..Len(l) : l[i] = "waiting"
             THEN Settle(promise, RejectedWith(NotConnectedLookup)) ELSE promise,
             <<>>, parsedEntities)
    ELSE SearchContinue(Replenished(l), results, errors, promise,
                        Started(l, Replenished(l)), parsedEntities)

\* searchIntegrations(integrations, text, ignoreLookupErrors) up to
\* `await this.parseEntities(text)`
SearchIntegrationsCall ==
    /\ searchPc = "idle"
    /\ \E ids \in IntegrationLists, len \in TextLengths, ignore \in BOOLEAN,
          plan \in LookupPlans :
          /\ integrations' = ids
          /\ textLength' = len
          /\ ignoreLookupErrors' = ignore
          /\ lookupPlan' = plan
          /\ IF isDisconnected
             THEN /\ searchPc' = "rejected"
                  /\ searchSettled' = RejectedWith(NotConnectedLookup)
                  /\ UNCHANGED <<resultsByIntegration, errorsByIntegration,
                                 searchRequests>>
             ELSE IF len > MaxTextLength
             THEN /\ searchPc' = "rejected"
                  /\ searchSettled' = RejectedWith(DetailsObj(
                        "Text length must be less than 5000 characters"))
                  /\ UNCHANGED <<resultsByIntegration, errorsByIntegration,
                                 searchRequests>>
             ELSE /\ searchPc' = "parsing"
                  /\ resultsByIntegration' = EmptyByIntegration(ids)
                  /\ errorsByIntegration' = EmptyByIntegration(ids)
                  /\ searchRequests' =
                        Append(searchRequests,
                               [op |-> "parseEntities",
                                uri |-> <<host, "/v2/parsed-entities">>,
                                method |-> "POST", body |-> [text_length |-> len]])
                  /\ UNCHANGED searchSettled
    /\ UNCHANGED <<entities, lookups, parseAnswer>>
    /\ UNCHANGED <<sessionVars, applyVars, clearVars, apiVars, validatorVars,
                   clearChannelVars>>

\* callback of the parse request and the continuation of searchIntegrations:
\* a rejection of parseEntities is passed to reject() in the catch block,
\* which does not return, so async.eachLimit runs in either case
SearchParseResponse ==
    /\ searchPc = "parsing"
    /\ \E resp \in ParseResponses :
          /\ parseAnswer' = <<resp>>
          /\ IF resp.err = null /\ resp.statusCode = 200
             THEN /\ entities' = resp.body.entities
                  /\ RunLookups([i \in 1..Len(integrations) |-> "waiting"],
                                resultsByIntegration, errorsByIntegration,
                                searchSettled, resp.body.entities)
             ELSE /\ entities' = undefined
                  /\ RunLookups([i \in 1..Len(integrations) |-> "waiting"],
                                resultsByIntegration, errorsByIntegration,
                                Settle(searchSettled,
                                       CallbackOutcome(resp, 200, "Failed to parse text")),
                                undefined)
    /\ UNCHANGED <<integrations, textLength, ignoreLookupErrors, lookupPlan>>
    /\ UNCHANGED <<sessionVars, applyVars, clearVars, apiVars, validatorVars,
                   clearChannelVars>>

\* the iteratee of integration i after `await this.integrationLookup(...)`,
\* errs being what it catches, and the next iteratees async.eachLimit starts
AfterLookup(i, resp, errs) ==
    RunLookups(
        [lookups EXCEPT ![i] = "done"],
        IF errs = <<>>
        THEN [resultsByIntegration EXCEPT ![integrations[i]] = @ \o resp.body.results]
        ELSE resultsByIntegration,
        IF errs # <<>> /\ ignoreLookupErrors
        THEN [errorsByIntegration EXCEPT ![integrations[i]] = @ \o errs]
        ELSE errorsByIntegration,
        IF errs # <<>> /\ ~ignoreLookupErrors
        THEN Settle(searchSettled, RejectedWith(errs[1]))
        ELSE searchSettled,
        entities)

\* callback of the lookup request of one integration
SearchLookupResponse ==
    /\ searchPc = "lookups"
    /\ \E i \in 1..Len(lookups) :
          /\ lookups[i] = "running"
          /\ AfterLookup(i, LookupAnswer(lookupPlan[i], integrations[i]),
                         IterateeError(integrations[i],
                                       LookupAnswer(lookupPlan[i], integrations[i])))
    /\ UNCHANGED <<integrations, textLength, ignoreLookupErrors, lookupPlan,
                   entities, parseAnswer>>
    /\ UNCHANGED <<sessionVars, applyVars, clearVars, apiVars, validatorVars,
                   clearChannelVars>>

\* One client that connects once and makes one searchIntegrations call.
SearchNext ==
    \/ ConnectCall
    \/ ProbeResponse
    \/ AuthResponse
    \/ SearchIntegrationsCall
    \/ SearchParseResponse
    \/ SearchLookupResponse

SearchSpec == Init /\ [][SearchNext]_vars

----------------------------------------------------------------------------
(* The validators applied to strings of chosen lengths *)

SubjectLengths ==
    {0, 1, 2, 3,
     MAXIMUM_ENTITY_NAME_LENGTH - 1, MAXIMUM_ENTITY_NAME_LENGTH,
     MAXIMUM_ENTITY_NAME_LENGTH + 1, MAXIMUM_ENTITY_NAME_LENGTH + 2,
     MAXIMUM_TAG_NAME_LENGTH - 1, MAXIMUM_TAG_NAME_LENGTH,
     MAXIMUM_TAG_NAME_LENGTH + 1, MAXIMUM_TAG_NAME_LENGTH + 2}

Subjects == {Str(n, c) : n \in SubjectLengths, c \in {"a", "1", " "}}

ValidatorInit ==
    /\ ClientInit /\ ClearIdle /\ ApiIdle /\ ClearChannelIdle /\ SearchIdle
    /\ subject \in Subjects
    /\ verdict = NoVerdict
    /\ ipVerdict = NoIpVerdict

\* validateEntity(subject)
ValidateEntityCall ==
    /\ "entity" \notin verdict.done
    /\ verdict' = [verdict EXCEPT !.done = @ \cup {"entity"},
                                  !.entity = validateEntity(subject)]
    /\ UNCHANGED <<subject, ipVerdict, sessionVars, applyVars, clearVars, apiVars,
                 clearChannelVars, searchVars>>

\* validateTag(subject)
ValidateTagCall ==
    /\ "tag" \notin verdict.done
    /\ verdict' = [verdict EXCEPT !.done = @ \cup {"tag"},
                                  !.tag = validateTag(subject)]
    /\ UNCHANGED <<subject, ipVerdict, sessionVars, applyVars, clearVars, apiVars,
                 clearChannelVars, searchVars>>

ValidatorNext ==
    \/ ValidateEntityCall
    \/ ValidateTagCall

ValidatorSpec == ValidatorInit /\ [][ValidatorNext]_vars

----------------------------------------------------------------------------
(* The address predicates applied to chosen strings *)

\* the decimal text of a natural number
RECURSIVE Decimal(_)
Decimal(n) ==
    IF n < 10 THEN <<DecimalDigits[n + 1]>>
    ELSE Decimal(n \div 10) \o <<DecimalDigits[(n % 10) + 1]>>

\* Array.prototype.join(sep)
RECURSIVE Join(_, _)
Join(parts, sep) ==
    IF Len(parts) = 0 THEN <<>>
    ELSE IF Len(parts) = 1 THEN parts[1]
    ELSE parts[1] \o <<sep>> \o Join(Tail(parts), sep)

\* texts of one octet: empty, zero, one digit, a leading zero, the largest
\* value, one above it, a letter among the digits
OctetPool ==
    {<<>>, <<"0">>, <<"7">>, <<"0", "7">>, <<"2", "5", "5">>, <<"2", "5", "6">>,
     <<"1", "a">>}

\* four octet texts joined by dots, and runs of one, two, three and five
DottedSubjects ==
    {Join(p, ".") : p \in [1..4 -> OctetPool]}
    \cup {Join(p, ".") :
             p \in UNION {[1..n -> {<<"1">>, <<"0">>}] : n \in {1, 2, 3, 5}}}

SampleAddresses ==
    {<<"1", ".", "2", ".", "3", ".", "4">>, <<"0", "1", ".", "2", ".", "3", ".", "4">>, <<"2", "5", "6", ".", "1", ".", "1", ".", "1">>, <<"1", ".", "2", ".", "3">>, <<"1", ".", "2", ".", "3", ".", "4", ".", "5">>, <<"1", ".", "2", ".", "3", ".">>,
     <<"0", ".", "0", ".", "0", ".", "0">>, <<"2", "5", "5", ".", "2", "5", "5", ".", "2", "5", "5", ".", "2", "5", "5">>, <<"+", "1", ".", "2", ".", "3", ".", "4">>, <<"1", ".", "2", ".", "3", ".", "-", "4">>, <<"1", ".", "2", ".", "3", ".", "1", "0", "0", "0">>}

Padding == {<<>>, <<" ">>, <<"\t">>, <<" ", " ">>}

\* addresses with white space around them or inside them
PaddedSubjects ==
    {l \o a \o r :
        l \in Padding, r \in Padding,
        a \in {<<"1", ".", "2", ".", "3", ".", "4">>, <<"2", "5", "6", ".", "1", ".", "1", ".", "1">>, <<"1", ".", "2", ".", "3">>, <<"0", ".", "0", ".", "0", ".", "0">>}}
    \cup {<<"1", ".", "2", " ", ".", "3", ".", "4">>, <<"1", ".", " ", "2", ".", "3", ".", "4">>}

\* values of the octet in which a prefix ends: every single bit, two bits,
\* all bits, none
BitValues == {0, 1, 2, 4, 8, 16, 32, 64, 128, 192, 255, 5}

\* addresses as four numbers: one octet takes a bit pattern, the octets
\* above it are 192 or 0, the octets below it are 0 or 128
CidrOctets ==
    {[i \in 1..4 |-> IF i < k THEN hi ELSE IF i = k THEN v ELSE lo] :
        k \in 1..4, v \in BitValues, hi \in {192, 0}, lo \in {0, 128}}
    \cup {<<192, 168, 1, 0>>, <<192, 168, 1, 5>>}

DottedQuad(o) == Join([i \in 1..4 |-> Decimal(o[i])], ".")

PrefixLengths == 0..32

\* texts after the slash that are not an integer in range
BadPrefixes ==
    {<<>>, <<"a", "b", "c">>, <<"2", "4", "x">>, <<"8", ".", "5">>, <<"3", "3">>, <<"1", "2", "9">>, <<"-", "1">>, <<"1", "0", "0", "0">>}

CidrSubjects ==
    {DottedQuad(o) \o <<"/">> \o Decimal(p) : o \in CidrOctets, p \in PrefixLengths}
    \cup {a \o <<"/">> \o x :
             a \in {<<"1", "9", "2", ".", "1", "6", "8", ".", "1", ".", "0">>, <<"1", "9", "2", ".", "1", "6", "8", ".", "1", ".", "5">>, <<"1", ".", "2", ".", "3", ".", "0">>, <<"0", ".", "0", ".", "0", ".", "0">>,
                    <<":", ":", "1">>, <<"f", "e", "8", "0", ":", ":">>, <<"b", "a", "d">>},
             x \in BadPrefixes \cup {<<"2", "4">>, <<"0">>, <<"3", "2">>, <<"6", "4">>, <<"1", "2", "8">>}}
    \cup {<<"1", ".", "2", ".", "3", ".", "0", "/", "2", "4", "/", "1">>, <<":", ":", "1", "/", "6", "4", "/", "1">>, <<" ", "1", "0", ".", "0", ".", "0", ".", "0", "/", "8", " ">>, <<"1", "0", ".", "0", ".", "0", ".", "0", " ", "/", "8">>,
          <<"1", "0", ".", "0", ".", "0", ".", "0", "/", " ", "8">>}

RangeParts ==
    {<<"1", "0", ".", "0", ".", "0", ".", "1">>, <<"1", "0", ".", "0", ".", "0", ".", "5">>, <<"b", "a", "d">>, <<" ", "1", "0", ".", "0", ".", "0", ".", "1", " ">>, <<"1", "0", ".", "0", ".", "0", ".", "2", "5", "6">>, <<>>,
     <<":", ":", "1">>, <<"f", "e", "8", "0", ":", ":", "1">>, <<" ", ":", ":", "1", " ">>, <<":", ":", "g">>}

\* one, two and three parts joined by dashes
RangeSubjects ==
    {Join(p, "-") : p \in UNION {[1..n -> RangeParts] : n \in 1..3}}

IpSubjects ==
    DottedSubjects \cup SampleAddresses \cup PaddedSubjects \cup CidrSubjects
    \cup RangeSubjects

IpInit ==
    /\ ClientInit /\ ClearIdle /\ ApiIdle /\ ClearChannelIdle /\ SearchIdle
    /\ subject \in IpSubjects
    /\ verdict = NoVerdict
    /\ ipVerdict = NoIpVerdict

Returned(fn, result) ==
    /\ ipVerdict.fn = "none"
    /\ ipVerdict' = [fn |-> fn, result |-> result]
    /\ UNCHANGED <<subject, verdict, sessionVars, applyVars, clearVars, apiVars,
                 clearChannelVars, searchVars>>

\* isIPv4(subject)
IsIPv4Call == Returned("isIPv4", isIPv4(subject))

\* isIPv6(subject)
IsIPv6Call == Returned("isIPv6", isIPv6(subject))

\* isIPv4Cidr(subject)
IsIPv4CidrCall == Returned("isIPv4Cidr", isIPv4Cidr(subject))

\* isIPv6Cidr(subject)
IsIPv6CidrCall == Returned("isIPv6Cidr", isIPv6Cidr(subject))

\* isIPv4Range(subject)
IsIPv4RangeCall == Returned("isIPv4Range", isIPv4Range(subject))

\* isIPv6Range(subject)
IsIPv6RangeCall == Returned("isIPv6Range", isIPv6Range(subject))

IpNext ==
    \/ IsIPv4Call
    \/ IsIPv6Call
    \/ IsIPv4CidrCall
    \/ IsIPv6CidrCall
    \/ IsIPv4RangeCall
    \/ IsIPv6RangeCall

IpSpec == IpInit /\ [][IpNext]_vars

----------------------------------------------------------------------------
(* Reference definitions for the properties of applyTags *)

\* the batches handed to the transport, in the order of the requests
Batches == [i \in 1..Len(requests) |-> requests[i].body.data]

RECURSIVE Concat(_)
Concat(seqs) == IF seqs = <<>> THEN <<>> ELSE Head(seqs) \o Concat(Tail(seqs))

\* every pair uploaded so far, in upload order
Uploaded == Concat(Batches)

IsPrefix(s, t) == Len(s) <= Len(t) /\ SubSeq(t, 1, Len(s)) = s

CeilDiv(n, d) == (n + d - 1) \div d

EntityOf(row) == Trim(row[1])
TagAt(row, c) == Trim(row[c])
EntityAccepted(row) ==
    Len(EntityOf(row)) \in MINIMUM_ENTITY_NAME_LENGTH..MAXIMUM_ENTITY_NAME_LENGTH
TagAccepted(row, c) ==
    Len(TagAt(row, c)) \in MINIMUM_TAG_NAME_LENGTH..MAXIMUM_TAG_NAME_LENGTH

\* the accepted cells of a row among columns 2..lastCol, in column order
AcceptedColumns(row, lastCol) ==
    SelectSeq([c \in 1..(lastCol - 1) |-> c + 1], LAMBDA c : TagAccepted(row, c))

CellPairs(row, lastCol, ch) ==
    IF ~EntityAccepted(row) THEN <<>>
    ELSE LET cols == AcceptedColumns(row, lastCol)
             e == EntityOf(row)
             t == EntityType(e)
         IN  [k \in 1..Len(cols) |->
                [type |-> "tag-entity-pairs",
                 attributes |-> [type |-> t, entity |-> e,
                                 tag |-> TagAt(row, cols[k]), channel_id |-> <<ch>>]]]

\* row-major traversal of the accepted cells of the rows
RECURSIVE AcceptedPairs(_, _)
AcceptedPairs(rs, ch) ==
    IF rs = <<>> THEN <<>>
    ELSE CellPairs(Head(rs), Len(Head(rs)), ch) \o AcceptedPairs(Tail(rs), ch)

\* a row holding a cell that fails validation and is examined by the loop
RowInvalid(row) ==
    ~EntityAccepted(row) \/ \E c \in 2..Len(row) : ~TagAccepted(row, c)

HasInvalidCell(rs) == \E r \in 1..Len(rs) : RowInvalid(rs[r])

FirstInvalidRow(rs) ==
    CHOOSE r \in 1..Len(rs) : RowInvalid(rs[r]) /\ \A q \in 1..(r - 1) : ~RowInvalid(rs[q])

\* column of the first invalid cell of an invalid row (1 is the entity)
FirstInvalidColumn(row) ==
    IF ~EntityAccepted(row) THEN 1
    ELSE CHOOSE c \in 2..Len(row) :
            ~TagAccepted(row, c) /\ \A b \in 2..(c - 1) : TagAccepted(row, b)

\* the pairs of the accepted cells that precede the first invalid cell
PairsBeforeFirstInvalid(rs, ch) ==
    LET r == FirstInvalidRow(rs)
        c == FirstInvalidColumn(rs[r])
    IN  AcceptedPairs(SubSeq(rs, 1, r - 1), ch) \o CellPairs(rs[r], c - 1, ch)

\* the call was aborted by the stop-on-invalid-data policy
AbortedByValidation ==
    applyPc = "rejected" /\ stopOnInvalidData /\ "message" \in settled.keys

----------------------------------------------------------------------------
(* Properties of applyTags *)

\* C1: every upload request issued by applyTags carries at least 1 and at
\* most MAX_TAG_ENTITIES_PER_REQUEST (2000) tag-entity pairs.
C1_BatchSizeBounded ==
    \A i \in 1..Len(requests) :
        /\ Len(Batches[i]) >= 1
        /\ Len(Batches[i]) <= MAX_TAG_ENTITIES_PER_REQUEST

\* C2: when applyTags resolves (every upload succeeded) for an input with N
\* valid pairs, it has issued exactly ceil(N/2000) upload calls, every call
\* but the last carrying exactly 2000 pairs and the last the remainder.
C2_ExactBatching ==
    applyPc = "resolved" =>
        LET N == Len(AcceptedPairs(rows, channelId))
            calls == CeilDiv(N, MAX_TAG_ENTITIES_PER_REQUEST)
        IN  /\ Len(requests) = calls
            /\ \A i \in 1..Len(requests) :
                  Len(Batches[i]) =
                      IF i < calls THEN MAX_TAG_ENTITIES_PER_REQUEST
                      ELSE N - (calls - 1) * MAX_TAG_ENTITIES_PER_REQUEST

\* C3: at most one upload request is outstanding at any time, and it is the
\* most recent one: a request is issued only once every earlier request has
\* been answered.
C3_OneOutstanding ==
    /\ Cardinality(pending) <= 1
    /\ pending \subseteq {Len(requests)}
    /\ Len(answers) = Len(requests) - Cardinality(pending)

\* a second batch is on its way after the first one was answered
C3_Witness ==
    /\ Len(requests) = 2
    /\ pending = {2}
    /\ Len(answers) = 1

\* C4: the concatenation of the batches, in the order the requests are
\* issued, is at every moment a prefix of the row-major traversal of the
\* accepted cells, and the whole traversal once the call has resolved.
C4_RowMajorOrder ==
    /\ IsPrefix(Uploaded, AcceptedPairs(rows, channelId))
    /\ applyPc = "resolved" => Uploaded = AcceptedPairs(rows, channelId)

\* two batches were sent, the second one starting in a later row
C4_Witness ==
    /\ applyPc = "resolved"
    /\ Len(requests) = 2
    /\ Batches[1][1].attributes.entity # Batches[2][1].attributes.entity
    /\ Len(Batches[2]) >= 2
    /\ Batches[2][1].attributes.tag # Batches[2][2].attributes.tag

\* C5: with stopOnInvalidData = false the call never rejects because of
\* invalid data, and once it has resolved the uploaded pairs are exactly,
\* each once, the cells whose trimmed entity and trimmed tag are valid.
C5_SkipPolicy ==
    ~stopOnInvalidData =>
        /\ applyPc = "rejected" => "detail" \in settled.keys
        /\ applyPc = "resolved" =>
              /\ Len(Uploaded) =
                    Cardinality({rc \in (1..Len(rows)) \X (2..MaxColumns) :
                                   /\ rc[2] <= Len(rows[rc[1]])
                                   /\ EntityAccepted(rows[rc[1]])
                                   /\ TagAccepted(rows[rc[1]], rc[2])})
              /\ Uploaded = AcceptedPairs(rows, channelId)

\* a row with an invalid entity and a row with an invalid tag between two
\* valid tags were both processed, and the valid siblings were uploaded
C5_Witness ==
    /\ ~stopOnInvalidData
    /\ applyPc = "resolved"
    /\ \E r \in 1..Len(rows) : ~EntityAccepted(rows[r]) /\ Len(rows[r]) > 1
    /\ \E r \in 1..Len(rows) :
          /\ EntityAccepted(rows[r])
          /\ \E c \in 3..(Len(rows[r]) - 1) :
                /\ ~TagAccepted(rows[r], c)
                /\ TagAccepted(rows[r], c - 1)
                /\ TagAccepted(rows[r], c + 1)
    /\ Len(Uploaded) = 2

\* the trimmed value of the first invalid cell in row-major order
FirstInvalidValue(rs) ==
    LET row == rs[FirstInvalidRow(rs)]
        c == FirstInvalidColumn(row)
    IN  IF c = 1 THEN EntityOf(row) ELSE TagAt(row, c)

FirstInvalidIsEntity(rs) == FirstInvalidColumn(rs[FirstInvalidRow(rs)]) = 1

C6_AbortState ==
    /\ AbortedByValidation =>
          /\ HasInvalidCell(rows)
          /\ settled.message[1] =
                IF FirstInvalidIsEntity(rows) THEN "The entity '" ELSE "The tag '"
          /\ settled.message[2] = FirstInvalidValue(rows)
          /\ pending = {}
          /\ Len(answers) = Len(requests)
          /\ Uploaded \o data = PairsBeforeFirstInvalid(rows, channelId)
    /\ (stopOnInvalidData /\ applyPc = "resolved") => ~HasInvalidCell(rows)

C6_NothingSentAfterAbort ==
    [][AbortedByValidation => (AbortedByValidation' /\ requests' = requests)]_vars

\* C6: with stopOnInvalidData = true the call cannot resolve when a cell
\* fails validation; when it aborts, it rejects with the validation message
\* of the first invalid cell in row-major order, naming the offending value,
\* the pairs buffered up to that cell (earlier tags of the same row included)
\* are not among the uploaded ones, and no upload request is issued from
\* then on.
C6_StopOnInvalidData == []C6_AbortState /\ C6_NothingSentAfterAbort

\* aborted on a tag whose row had already buffered an earlier tag
C6_Witness ==
    /\ AbortedByValidation
    /\ ~FirstInvalidIsEntity(rows)
    /\ FirstInvalidColumn(rows[FirstInvalidRow(rows)]) > 2
    /\ Len(data) > 0
    /\ requests = <<>>

\* number of accepted pairs held by the first q rows
PairsUpToRow(rs, q, ch) == Len(AcceptedPairs(SubSeq(rs, 1, q), ch))

\* number of pairs carried by the first i batches
PairsUpToBatch(i) == Len(Concat(SubSeq(Batches, 1, i)))

\* C7: when the stop-on-invalid-data policy aborts the call, the uploads made
\* are exactly the flushes triggered by the rows before the invalid row:
\* none if those rows hold fewer than 2000 valid pairs; each batch ends at the
\* first row end at which the buffer held at least 2000 pairs; what is left
\* unflushed is less than 2000 pairs.
C7_FlushesBeforeAbort ==
    AbortedByValidation =>
        LET r == FirstInvalidRow(rows)
            before == PairsUpToRow(rows, r - 1, channelId)
        IN  /\ before < MAX_TAG_ENTITIES_PER_REQUEST => requests = <<>>
            /\ IsPrefix(Uploaded, AcceptedPairs(SubSeq(rows, 1, r - 1), channelId))
            /\ before - Len(Uploaded) < MAX_TAG_ENTITIES_PER_REQUEST
            /\ \A i \in 1..Len(requests) :
                  /\ Len(Batches[i]) >= MAX_TAG_ENTITIES_PER_REQUEST
                  /\ \E q \in 1..(r - 1) :
                        /\ PairsUpToRow(rows, q, channelId) = PairsUpToBatch(i)
                        /\ PairsUpToRow(rows, q - 1, channelId) - PairsUpToBatch(i - 1)
                              < MAX_TAG_ENTITIES_PER_REQUEST

\* a full first row was uploaded before the second row aborted the call
C7_Witness ==
    /\ AbortedByValidation
    /\ Len(requests) = 1
    /\ FirstInvalidRow(rows) = 2

\* the call was rejected although every batch it had sent was accepted: the
\* stop-on-invalid-data policy aborted it after one or more uploads
AbortedAfterUploads ==
    /\ applyPc = "rejected"
    /\ stopOnInvalidData
    /\ Len(requests) >= 1
    /\ Len(answers) = Len(requests)
    /\ \A j \in 1..Len(answers) :
          answers[j].response.err = null /\ answers[j].response.statusCode = 201

\* C8 as stated: the rejection of an abort that follows uploads carries the
\* validation error and the list of the batches already submitted.
C8_AbortCarriesBatches ==
    AbortedAfterUploads =>
        /\ settled.message[2] = FirstInvalidValue(rows)
        /\ "tagEntityPairs" \in settled.keys
        /\ settled.tagEntityPairs = Uploaded

\* C8 amended: the rejection of an abort that follows uploads is the Error
\* of the validation failure alone; it has no property holding the batches
\* already submitted.
C8_AbortCarriesOnlyError ==
    AbortedAfterUploads =>
        /\ settled.keys = {"message", "stack"}
        /\ settled.message[2] = FirstInvalidValue(rows)
        /\ settled.tagEntityPairs = <<>>

\* an abort after a batch that the server had accepted
C8_Witness ==
    /\ AbortedAfterUploads
    /\ Len(Uploaded) >= MAX_TAG_ENTITIES_PER_REQUEST
    /\ HasInvalidCell(rows)

\* the call was rejected because of the status of an answer
RejectedByStatus == applyPc = "rejected" /\ "status" \in settled.keys

C9_RejectionState ==
    RejectedByStatus =>
        LET k == Len(requests)
        IN  /\ k >= 1
            /\ Len(answers) = k
            /\ pending = {}
            /\ \A j \in 1..k : answers[j].request = j
            /\ \A j \in 1..(k - 1) : answers[j].response.statusCode = 201
            /\ answers[k].response.statusCode # 201
            /\ settled.status = answers[k].response.statusCode
            /\ settled.body = answers[k].response.body
            /\ "tagEntityPairs" \in settled.keys
            /\ settled.tagEntityPairs = Batches[k]
            /\ IsPrefix(Uploaded, AcceptedPairs(rows, channelId))

C9_NothingSentAfterRejection ==
    [][RejectedByStatus => (RejectedByStatus' /\ requests' = requests)]_vars

\* C9: when batch k is answered with a status other than 201 the call
\* rejects with that status, that body and exactly the pairs of batch k;
\* batches 1..k-1 were each sent once and answered 201, and no request is
\* issued afterwards.
C9_FailedBatch == []C9_RejectionState /\ C9_NothingSentAfterRejection

\* the second batch failed after the first had been accepted
C9_Witness ==
    /\ RejectedByStatus
    /\ Len(requests) = 2
    /\ settled.status = 200

\* C10: when applyTags resolves after sending batches, the resolved value is
\* the body of the answer to the last batch.
C10_LastResponseOnly ==
    (applyPc = "resolved" /\ Len(requests) >= 1) =>
        /\ Len(answers) = Len(requests)
        /\ settled = answers[Len(answers)].response.body

\* two batches answered with different bodies
C10_Witness ==
    /\ applyPc = "resolved"
    /\ Len(requests) = 2
    /\ answers[1].response.body # answers[2].response.body

\* applyTags was called while the client was connected
CalledConnected ==
    /\ applyPc # "idle"
    /\ ~(/\ applyPc = "rejected"
         /\ "detail" \in settled.keys
         /\ settled.detail =
               "Polarity must be connected before trying to getTagsByEntityValue()")

\* no row holds a tag (an empty row set included)
NoTags(rs) == \A r \in 1..Len(rs) : Len(rs[r]) = 1

\* C11 as stated: applyTags on a connected client with an empty row set, or
\* with rows that each hold only an entity, issues no upload request, does
\* not reject, and resolves with undefined.
C11_NoTagsResolvesUndefined ==
    (CalledConnected /\ NoTags(rows)) =>
        /\ requests = <<>>
        /\ applyPc = "resolved"
        /\ settled = undefined

\* C11 amended: applyTags on a connected client with an empty row set, or
\* with rows that each hold only an entity, issues no upload request; it
\* resolves with undefined, except that with stopOnInvalidData = true and
\* an invalid entity among the rows it rejects with the validation message
\* of the first invalid entity.
C11_NoTagsNoUpload ==
    (CalledConnected /\ NoTags(rows)) =>
        /\ requests = <<>>
        /\ IF stopOnInvalidData /\ HasInvalidCell(rows)
           THEN /\ applyPc = "rejected"
                /\ settled.keys = {"message", "stack"}
                /\ settled.message[1] = "The entity '"
                /\ settled.message[2] = FirstInvalidValue(rows)
           ELSE /\ applyPc = "resolved"
                /\ settled = undefined

\* two entity-only rows, one of them with an invalid entity, were skipped
C11_Witness ==
    /\ CalledConnected
    /\ Len(rows) = 2
    /\ NoTags(rows)
    /\ HasInvalidCell(rows)
    /\ \E r \in 1..2 : EntityAccepted(rows[r])
    /\ applyPc = "resolved"

\* the distinct (type, entity, channel list) combinations among the pairs of
\* the upload requests
UploadedKinds ==
    UNION {{[type |-> Batches[i][k].attributes.type,
             entity |-> Batches[i][k].attributes.entity,
             channel_id |-> Batches[i][k].attributes.channel_id] :
               k \in 1..Len(Batches[i])} : i \in 1..Len(requests)}

\* C12: every uploaded pair has type 'ip' exactly when its entity is an
\* address, CIDR block or range for the address classifier (isIP4r) and type
\* 'string' otherwise; its entity is the trimmed entity of a row, and its
\* channel list is the one-element list holding the channelId of the call.
C12_EntityTypeAndChannel ==
    \A p \in UploadedKinds :
        /\ p.type \in {"ip", "string"}
        /\ p.type = "ip" <=> isIP4r(p.entity)
        /\ \E r \in 1..Len(rows) : p.entity = Trim(rows[r][1])
        /\ p.channel_id = <<channelId>>

\* one request carried pairs of an address and pairs of a plain string
C12_Witness ==
    /\ Len(requests) = 1
    /\ \E p, q \in UploadedKinds : p.type = "ip" /\ q.type = "string"

\* C13: validateEntity returns a message exactly when the length of the
\* entity is outside [1, 256], and validateTag exactly when the length of
\* the tag is outside [1, 2100].
C13_LengthBounds ==
    /\ "entity" \in verdict.done =>
          (verdict.entity # NoError <=> (Len(subject) < 1 \/ Len(subject) > 256))
    /\ "tag" \in verdict.done =>
          (verdict.tag # NoError <=> (Len(subject) < 1 \/ Len(subject) > 2100))

\* a string of 256 characters passed both validators
C13_Witness ==
    /\ Len(subject) = 256
    /\ verdict.done = {"entity", "tag"}
    /\ verdict.entity = NoError
    /\ verdict.tag = NoError

----------------------------------------------------------------------------
(* Properties of clearChannelById *)

\* the DELETE request has been answered
DeleteAnswered == clearRequests = 1 /\ clearPc \notin {"idle", "deleting"}

\* C14: clearChannelById with waitUntilComplete = false whose DELETE is
\* answered 202 resolves with a payload in which clearComplete is false and
\* meta carries timeout 30000.
C14_NonBlockingPayload ==
    (DeleteAnswered /\ ~waitUntilComplete /\ clearResponse.err = null
        /\ clearResponse.statusCode = 202) =>
        /\ clearPc = "resolved"
        /\ clearSettled.kind = "resolved"
        /\ clearBody.clearComplete = FALSE
        /\ "timeout" \in DOMAIN clearBody.meta
        /\ clearBody.meta.timeout = CLEAR_CHANNEL_CHECK_INTERVAL

\* C15: when the DELETE is answered 200, or 202 with waitUntilComplete =
\* false, the call resolves from that answer with its body, no check is ever
\* started and no timer is set; a timer is set only for a 202 answer to a
\* caller that asked to wait.
C15_PollsOnlyWhenAsked ==
    /\ (DeleteAnswered /\ clearResponse.err = null
           /\ (\/ clearResponse.statusCode = 200
               \/ clearResponse.statusCode = 202 /\ ~waitUntilComplete)) =>
          /\ clearPc = "resolved"
          /\ clearSettled.kind = "resolved"
          /\ clearBody.meta = clearResponse.body.meta
          /\ checks = <<>>
          /\ pollingInterval = "none"
    /\ (pollingInterval # "none" \/ checks # <<>>) =>
          /\ clearResponse.err = null
          /\ clearResponse.statusCode = 202
          /\ waitUntilComplete

\* a 202 answer to a caller that did not ask to wait resolved the call
C15_Witness ==
    /\ clearPc = "resolved"
    /\ ~waitUntilComplete
    /\ clearResponse.statusCode = 202
    /\ checks = <<>>

\* the check failed: search refused it for want of a connection, the
\* transport failed, or the status was not 200
CheckFailed(c) ==
    \/ c.state = "refused"
    \/ /\ c.state = "answered"
       /\ (c.response.err # null \/ c.response.statusCode # 200)

\* the check was answered 200 with a data array of length zero
CheckEmpty(c) ==
    /\ c.state = "answered"
    /\ c.response.err = null
    /\ c.response.statusCode = 200
    /\ "data" \in c.response.body.keys
    /\ c.response.body.data = <<>>

NoCheckFailed == \A i \in 1..Len(checks) : ~CheckFailed(checks[i])
SomeCheckEmpty == \E i \in 1..Len(checks) : CheckEmpty(checks[i])

\* the call resolved with the DELETE body, clearComplete set and the
\* deletion counters as the DELETE answer gave them
ResolvedComplete ==
    /\ clearPc = "resolved"
    /\ clearSettled.kind = "resolved"
    /\ clearBody.keys = {"meta", "clearComplete"}
    /\ clearBody.clearComplete = TRUE
    /\ clearBody.meta = clearResponse.body.meta

\* C16: in blocking mode, when no check ever fails and some check is
\* answered with zero-length data, the call eventually resolves with
\* clearComplete = true and the deletion counters of the DELETE answer.
C16_EventuallyResolves ==
    ([]NoCheckFailed /\ <>SomeCheckEmpty) => <>ResolvedComplete

\* the second check found the channel empty after the first had not
C16_Witness ==
    /\ ResolvedComplete
    /\ Len(checks) = 2
    /\ NoCheckFailed
    /\ checks[1].state = "answered"
    /\ ~CheckEmpty(checks[1])
    /\ CheckEmpty(checks[2])
    /\ clearBody.meta.num_context_rows_deleted = 4

C17_TimerCancelled == clearPc = "resolved" => pollingInterval # "active"

C17_NoCheckAfterCompletion ==
    [][clearPc = "resolved" => (clearPc' = "resolved" /\ Len(checks') = Len(checks))]_vars

\* C17: once the clear call has resolved, the timer is not active and no
\* further check is started.
C17_NoPollingOnceCompleted == []C17_TimerCancelled /\ C17_NoCheckAfterCompletion

\* the first check completed the call while no second one had been started
C17_Witness ==
    /\ clearPc = "resolved"
    /\ pollingInterval = "cleared"
    /\ Len(checks) = 1
    /\ CheckEmpty(checks[1])

\* the call was rejected by the catch block of the timer callback
RejectedByPolling ==
    /\ clearPc = "rejected"
    /\ pollingInterval = "cleared"

\* in this step a check fails
CheckFailsNow ==
    \E i \in 1..Len(checks') :
        /\ CheckFailed(checks'[i])
        /\ i > Len(checks) \/ ~CheckFailed(checks[i])

C18_RejectsWithContext ==
    [][(clearPc = "polling" /\ CheckFailsNow) =>
          /\ clearPc' = "rejected"
          /\ pollingInterval' = "cleared"
          /\ clearSettled'.kind = "rejected"
          /\ {"body", "response"} \subseteq clearSettled'.value.keys
          /\ clearSettled'.value.body = BodyRef
          /\ clearSettled'.value.response = ResponseRef
          /\ clearBody' = clearResponse.body
          /\ clearResponse' = clearResponse]_vars

C18_NoCheckAfterFailure ==
    [][RejectedByPolling =>
          (RejectedByPolling' /\ Len(checks') = Len(checks)
             /\ clearSettled' = clearSettled)]_vars

\* C18: when a check fails while the call is polling (the client is
\* disconnected, the transport fails, or the status is not 200), the timer
\* is cancelled, the call rejects with an object holding the response and
\* the body of the DELETE answer, and no check is started afterwards.
C18_FailedCheckEndsPolling == C18_RejectsWithContext /\ C18_NoCheckAfterFailure

\* the client was logged out during polling: the second check was refused
\* while the first was still unanswered
C18_Witness ==
    /\ RejectedByPolling
    /\ Len(checks) = 2
    /\ checks[1].state = "pending"
    /\ checks[2].state = "refused"
    /\ ~isConnected

\* every check started so far is unanswered or found the channel not empty
NoCheckEnded ==
    \A i \in 1..Len(checks) : ~CheckFailed(checks[i]) /\ ~CheckEmpty(checks[i])

C19_StillPolling ==
    (pollingInterval # "none" /\ NoCheckEnded) =>
        /\ clearPc = "polling"
        /\ pollingInterval = "active"
        /\ Len(checks) < MaxChecks => ENABLED Tick

C19_OnlyExits ==
    [][(pollingInterval = "active" /\ (pollingInterval' # "active" \/ clearPc' # "polling")) =>
          \E i \in 1..Len(checks') :
              /\ CheckFailed(checks'[i]) \/ CheckEmpty(checks'[i])
              /\ i > Len(checks) \/ checks[i].state = "pending"]_vars

C19_TickStartsCheck ==
    [][(Len(checks') = Len(checks) + 1 /\ isConnected) =>
          checks'[Len(checks')].state = "pending"]_vars

\* C19: in blocking mode, as long as every check succeeds and finds the
\* channel not empty, the call stays unsettled with its timer active, and
\* every tick of the timer starts a new check; the timer stops and the call
\* settles only in a step in which a check reports empty or fails.
C19_UnboundedPolling == []C19_StillPolling /\ C19_OnlyExits /\ C19_TickStartsCheck

\* the call is still polling after as many non-empty answers as the model
\* allows checks
C19_Witness ==
    /\ clearPc = "polling"
    /\ Len(checks) = MaxChecks
    /\ \A i \in 1..Len(checks) :
          checks[i].state = "answered" /\ ~CheckFailed(checks[i]) /\ ~CheckEmpty(checks[i])

----------------------------------------------------------------------------
(* Properties of the connection test *)

MustBeConnectedDetails ==
    {"Polarity must be connected before trying to clear a channel",
     "Polarity must be connected before trying to get users",
     "Polarity must be connected before trying to create a user"}

\* C20: a call of search, getUsers or createUser made while the client is
\* not connected is rejected at once with a `must be connected` detail and
\* issues no request.
C20_NotConnectedRejects ==
    \A op \in ApiOps :
        (apiPc[op] # "idle" /\ ~apiConnectedAtCall[op]) =>
            /\ apiPc[op] = "rejected"
            /\ apiSettled[op].value.keys = {"detail"}
            /\ apiSettled[op].value.detail \in MustBeConnectedDetails
            /\ \A i \in 1..Len(apiRequests) : apiRequests[i].op # op

----------------------------------------------------------------------------
(* Properties of the address predicates *)

\* Reference: the text of one octet, by the rules of the dotted notation:
\* one to three digits, no zero in front of another digit, at most 255
RefOctet(t) ==
    /\ Len(t) \in 1..3
    /\ \A i \in 1..Len(t) : t[i] \in {"0", "1", "2", "3", "4", "5", "6", "7", "8", "9"}
    /\ Len(t) = 1 \/ t[1] # "0"
    /\ DecimalValue(t) <= 255

\* the positions of the dots of a string
Dots(s) == {i \in 1..Len(s) : s[i] = "."}

\* the four stretches of s around the positions i < j < k
SegmentsAt(s, i, j, k) ==
    <<SubSeq(s, 1, i - 1), SubSeq(s, i + 1, j - 1), SubSeq(s, j + 1, k - 1),
      SubSeq(s, k + 1, Len(s))>>

\* Reference: s is four octet texts separated by three dots
RefDottedQuad(s) ==
    \E i \in Dots(s), j \in Dots(s), k \in Dots(s) :
        /\ i < j /\ j < k
        /\ \A x \in 1..4 : RefOctet(SegmentsAt(s, i, j, k)[x])

\* the four numbers of a dotted quad
RefOctetValues(s) ==
    [x \in 1..4 |->
        DecimalValue(
            SegmentsAt(s,
                       CHOOSE i \in Dots(s) : \A d \in Dots(s) : i <= d,
                       CHOOSE j \in Dots(s) : Cardinality({d \in Dots(s) : d < j}) = 1,
                       CHOOSE k \in Dots(s) : \A d \in Dots(s) : d <= k)[x])]

\* Reference: bit b of a 32-bit address, bit 1 being the most significant
AddressBit(o, b) == (o[((b - 1) \div 8) + 1] \div (2 ^ (7 - ((b - 1) % 8)))) % 2

\* Reference: the bits after the first p bits are all zero
HostBitsZero(o, p) == \A b \in (p + 1)..32 : AddressBit(o, b) = 0

\* the part of the subject in front of a suffix of n characters
SubjectBefore(n) == SubSeq(subject, 1, Len(subject) - n)

SubjectEndsWith(suffix) ==
    /\ Len(subject) > Len(suffix)
    /\ SubSeq(subject, Len(subject) - Len(suffix) + 1, Len(subject)) = suffix

\* C23: isIPv4 returns false for an otherwise valid dotted quad that has
\* white space in front of it or behind it, such as " 1.2.3.4".
C23_PaddedRejected ==
    (/\ ipVerdict.fn = "isIPv4"
     /\ subject # Trim(subject)
     /\ RefDottedQuad(Trim(subject))) => ~ipVerdict.result

\* C24: for a string without white space isIPv4 returns true exactly when
\* the string is four dot-separated parts, each a non-empty run of digits
\* with no leading zero (unless it is "0") and a value of at most 255; the
\* five strings the specification names are rejected.
C24_DottedQuadExactly ==
    ipVerdict.fn = "isIPv4" =>
        /\ ~HasSpace(subject) => (ipVerdict.result <=> RefDottedQuad(subject))
        /\ subject \in {<<"0", "1", ".", "2", ".", "3", ".", "4">>, <<"2", "5", "6", ".", "1", ".", "1", ".", "1">>, <<"1", ".", "2", ".", "3">>, <<"1", ".", "2", ".", "3", ".", "4", ".", "5">>, <<"1", ".", "2", ".", "3", ".">>}
              => ~ipVerdict.result

\* isIPv4 accepted an address with a zero octet and an octet of 255
C24_Witness ==
    /\ ipVerdict = [fn |-> "isIPv4", result |-> TRUE]
    /\ subject = <<"0", ".", "7", ".", "2", "5", "5", ".", "7">>

\* C25: for a valid address a and a prefix p of 0 to 32, isIPv4Cidr("a/p") is
\* true exactly when the bits of a after the first p bits are all zero;
\* 192.168.1.0/24 is accepted and 192.168.1.5/24 is rejected.
C25_HostBitsZero ==
    ipVerdict.fn = "isIPv4Cidr" =>
        /\ \A p \in PrefixLengths :
              (/\ SubjectEndsWith(<<"/">> \o Decimal(p))
               /\ RefDottedQuad(SubjectBefore(Len(Decimal(p)) + 1))) =>
                  (ipVerdict.result <=>
                      HostBitsZero(
                          RefOctetValues(SubjectBefore(Len(Decimal(p)) + 1)), p))
        /\ subject = <<"1", "9", "2", ".", "1", "6", "8", ".", "1", ".", "0", "/", "2", "4">> => ipVerdict.result
        /\ subject = <<"1", "9", "2", ".", "1", "6", "8", ".", "1", ".", "5", "/", "2", "4">> => ~ipVerdict.result

\* isIPv4Cidr accepted a prefix that ends inside the third octet
C25_Witness ==
    /\ ipVerdict = [fn |-> "isIPv4Cidr", result |-> TRUE]
    /\ subject = <<"1", "9", "2", ".", "1", "9", "2", ".", "1", "9", "2", ".", "0", "/", "1", "8">>

\* C26: isIPv4Cidr and isIPv6Cidr return false when the text after the slash
\* is empty, is not a number, has characters after its digits or is a number
\* out of range, even when the address in front of the slash is valid.
C26_BadPrefixRejected ==
    /\ ipVerdict.fn = "isIPv4Cidr" =>
          \A x \in BadPrefixes :
              SubjectEndsWith(<<"/">> \o x) => ~ipVerdict.result
    /\ ipVerdict.fn = "isIPv6Cidr" =>
          \A x \in BadPrefixes \ {<<"3", "3">>} :
              SubjectEndsWith(<<"/">> \o x) => ~ipVerdict.result

\* C27: isIPv4Range (isIPv6Range) returns true exactly when the value is two
\* parts around one dash and each part satisfies isIPv4 (isIPv6); the order
\* of the two addresses does not matter.
C27_TwoAddresses ==
    /\ ipVerdict.fn = "isIPv4Range" =>
          /\ ipVerdict.result <=>
                \E a \in RangeParts, b \in RangeParts :
                    subject = Join(<<a, b>>, "-") /\ isIPv4(a) /\ isIPv4(b)
          /\ subject = <<"1", "0", ".", "0", ".", "0", ".", "5", "-", "1", "0", ".", "0", ".", "0", ".", "1">> => ipVerdict.result
          /\ subject = <<"1", "0", ".", "0", ".", "0", ".", "1", "-", "b", "a", "d">> => ~ipVerdict.result
    /\ ipVerdict.fn = "isIPv6Range" =>
          ipVerdict.result <=>
              \E a \in RangeParts, b \in RangeParts :
                  subject = Join(<<a, b>>, "-") /\ isIPv6(a) /\ isIPv6(b)

\* isIPv4Range accepted a range whose end is below its start
C27_Witness ==
    /\ ipVerdict = [fn |-> "isIPv4Range", result |-> TRUE]
    /\ subject = <<"1", "0", ".", "0", ".", "0", ".", "5", "-", "1", "0", ".", "0", ".", "0", ".", "1">>

----------------------------------------------------------------------------
(* Properties of the failures of a request *)

\* the operations whose promise settles in the callback of their request
SingleCallOps == ApiOps \ {"createUser"}

SuccessCode(op) == IF op = "createChannel" THEN 201 ELSE 200

\* the number of requests an operation has issued
RequestsOf(op) ==
    Cardinality({i \in 1..Len(apiRequests) : apiRequests[i].op = op})

\* an operation whose request was answered with a transport error rejected
\* with that error and no status; one whose request was answered with a
\* status other than its success code rejected with that status and that
\* body; the request was issued once
C21_ApiFailure ==
    \A op \in SingleCallOps :
        Len(apiAnswer[op]) = 1 =>
            /\ apiAnswer[op][1].err # null =>
                  /\ apiPc[op] = "rejected"
                  /\ apiSettled[op].value.keys = {"detail", "err"}
                  /\ apiSettled[op].value.err = apiAnswer[op][1].err
            /\ (/\ apiAnswer[op][1].err = null
                /\ apiAnswer[op][1].statusCode # SuccessCode(op)) =>
                  /\ apiPc[op] = "rejected"
                  /\ apiSettled[op].value.keys = {"detail", "status", "body"}
                  /\ apiSettled[op].value.status = apiAnswer[op][1].statusCode
                  /\ apiSettled[op].value.body = apiAnswer[op][1].body
            /\ RequestsOf(op) = 1

\* the same for the tag upload: the failed request is the last one issued
C21_UploadFailure ==
    \A j \in 1..Len(answers) :
        /\ answers[j].response.err # null =>
              /\ applyPc = "rejected"
              /\ settled.keys = {"detail", "err"}
              /\ settled.err = answers[j].response.err
              /\ Len(requests) = answers[j].request
        /\ (/\ answers[j].response.err = null
            /\ answers[j].response.statusCode # 201) =>
              /\ applyPc = "rejected"
              /\ {"status", "body"} \subseteq settled.keys
              /\ "err" \notin settled.keys
              /\ settled.status = answers[j].response.statusCode
              /\ settled.body = answers[j].response.body
              /\ Len(requests) = answers[j].request

\* the same for the DELETE of clearChannelById, whose success codes are 200
\* and 202
C21_ClearFailure ==
    (clearPc \notin {"idle", "deleting"} /\ clearRequests >= 1) =>
        /\ clearResponse.err # null =>
              /\ clearPc = "rejected"
              /\ clearSettled.value.keys = {"detail", "err"}
              /\ clearSettled.value.err = clearResponse.err
        /\ (clearResponse.err = null /\ clearResponse.statusCode \notin {200, 202}) =>
              /\ clearPc = "rejected"
              /\ clearSettled.value.keys = {"detail", "status", "body"}
              /\ clearSettled.value.status = clearResponse.statusCode
              /\ clearSettled.value.body = BodyRef
              /\ clearBody = clearResponse.body
        /\ clearRequests = 1

\* C21: for each operation that issues one request, a transport error
\* rejects with the underlying error and no status, an answer whose status
\* is not the success code of the operation rejects with that status and
\* the body as received, and in neither case is the request issued again.
C21_FailuresOfARequest == C21_ApiFailure /\ C21_UploadFailure /\ C21_ClearFailure

\* createChannel was answered 200, which is not its success code
C21_Witness ==
    /\ apiPc["createChannel"] = "rejected"
    /\ Len(apiAnswer["createChannel"]) = 1
    /\ apiAnswer["createChannel"][1].err = null
    /\ apiAnswer["createChannel"][1].statusCode = 200
    /\ apiSettled["createChannel"].value.status = 200

\* C22: every rejection of applyTags, of clearChannelById and of the
\* operations that issue one request carries a `detail` property: the
\* precondition failures, the abort on invalid data, the transport errors,
\* the status errors and the polling failure wrapped by toError.
C22_EveryRejectionHasDetail ==
    /\ applyPc = "rejected" => "detail" \in settled.keys
    /\ clearPc = "rejected" => "detail" \in clearSettled.value.keys
    /\ \A op \in SingleCallOps :
          apiPc[op] = "rejected" => "detail" \in apiSettled[op].value.keys

----------------------------------------------------------------------------
(* Properties of clearChannel *)

\* the answer to the GET of clearChannel was a 200
ChannelsListed ==
    /\ Len(getChannelAnswer) = 1
    /\ getChannelAnswer[1].err = null
    /\ getChannelAnswer[1].statusCode = 200

\* the answer lists a channel with exactly the name asked for
ExactNameListed ==
    \E i \in 1..Len(getChannelAnswer[1].body.data) :
        getChannelAnswer[1].body.data[i].channel_name = nameToClear

\* C30: clearChannel(channelName) resolves with true when a
\* channel of exactly that name exists and was cleared; when no channel has
\* exactly that name it resolves with false without issuing a DELETE.
C30_TrueOrFalse ==
    /\ (ChannelsListed /\ ExactNameListed /\ ClearChannelPromise.kind = "resolved")
          => ClearChannelPromise.value = Boolean(TRUE)
    /\ (ChannelsListed /\ ~ExactNameListed) =>
          /\ ClearChannelPromise = ResolvedWith(Boolean(FALSE))
          /\ clearRequests = 0

----------------------------------------------------------------------------
(* Properties of searchIntegrations *)

\* the lookup requests issued so far
LookupsRequested ==
    {k \in 1..Len(searchRequests) : searchRequests[k].op = "integrationLookup"}

\* the lookup requests that have not been answered
InFlight ==
    Cardinality(LookupsRequested)
        - Cardinality({i \in 1..Len(lookups) : lookups[i] = "done"})

\* C28: during a searchIntegrations call at most 10 lookup requests are in
\* flight, whatever the number of integrations and the order of the answers.
C28_AtMostTenInFlight == InFlight <= 10

\* ten lookups are in flight after one has been answered and the eleventh
\* integration has been started in its place
C28_Witness ==
    /\ InFlight = 10
    /\ Len(lookups) > 10
    /\ \E i \in 1..Len(lookups) : lookups[i] = "done"
    /\ \A i \in 1..Len(lookups) : lookups[i] # "waiting"

\* two objects with the same properties and the same values
SameObj(a, b) ==
    /\ a.keys = b.keys
    /\ "detail" \in a.keys => a.detail = b.detail
    /\ "message" \in a.keys => a.message = b.message
    /\ "status" \in a.keys => a.status = b.status
    /\ "body" \in a.keys => a.body = b.body
    /\ "err" \in a.keys => a.err = b.err

\* the lookup of integration i has been answered, and it failed
LookupFailed(i) == lookups[i] = "done" /\ lookupPlan[i] # "results"

\* the error of the failed lookup of integration i
LookupError(i) ==
    IterateeError(integrations[i], LookupAnswer(lookupPlan[i], integrations[i]))[1]

ParseSucceeded ==
    /\ Len(parseAnswer) = 1
    /\ parseAnswer[1].err = null
    /\ parseAnswer[1].statusCode = 200

\* the number of lookup requests issued for integration i
LookupRequestsFor(i) ==
    Cardinality({k \in LookupsRequested : searchRequests[k].uri[3] = integrations[i]})

\* with ignoreLookupErrors = true a rejection comes from the call itself or
\* from the parsing, never from a lookup; once the text is parsed and every
\* lookup has been answered the call has resolved with the results of each
\* integration, each integration was looked up once, and __errors holds the
\* error of each failed lookup under its integration
C29_Ignored ==
    ignoreLookupErrors =>
        /\ searchSettled.kind = "rejected" =>
              (searchPc = "rejected" \/ (Len(parseAnswer) = 1 /\ ~ParseSucceeded))
        /\ (searchPc = "finished" /\ ParseSucceeded) =>
              /\ searchSettled.kind = "resolved"
              /\ \A i \in 1..Len(integrations) :
                    /\ LookupRequestsFor(i) = 1
                    /\ searchSettled.value.results[integrations[i]] =
                          IF LookupFailed(i) THEN <<>>
                          ELSE <<"result of " \o integrations[i]>>
                    /\ Len(searchSettled.value.__errors[integrations[i]]) =
                          IF LookupFailed(i) THEN 1 ELSE 0
                    /\ LookupFailed(i) =>
                          SameObj(searchSettled.value.__errors[integrations[i]][1],
                                  LookupError(i))

\* with ignoreLookupErrors = false a failed lookup leaves the call rejected
\* with the error of a failed lookup
C29_NotIgnored ==
    (~ignoreLookupErrors /\ \E i \in 1..Len(lookups) : LookupFailed(i)) =>
        /\ searchSettled.kind = "rejected"
        /\ \E i \in 1..Len(lookups) :
              LookupFailed(i) /\ SameObj(searchSettled.value, LookupError(i))

\* C29: with ignoreLookupErrors = true searchIntegrations never rejects
\* because a lookup failed: it looks every integration up, resolves with the
\* results of each and records the error of each failed lookup under
\* __errors; with ignoreLookupErrors = false a failed lookup makes the call
\* reject with the error of that lookup.
C29_LookupErrors == C29_Ignored /\ C29_NotIgnored

\* the same, the second part for the calls whose text was parsed
C29_LookupErrorsOnceParsed == C29_Ignored /\ (ParseSucceeded => C29_NotIgnored)

----------------------------------------------------------------------------
(* Properties of the session *)

C36_HostIffConnected == (host # null) <=> isConnected

\* the call that settles in this step, resolved by an answer with status 200
\* to the request it waited for
ResolvedBy200(pc) ==
    \E k \in DOMAIN sessionCalls :
        /\ sessionCalls[k].pc = pc
        /\ sessionCalls'[k].pc = "ended"
        /\ sessionCalls'[k].promise = "resolved"
        /\ sessionCalls'[k].status = 200

C36_OnlyOn200 ==
    [][/\ (~isConnected /\ isConnected') => ResolvedBy200("auth")
       /\ (isConnected /\ ~isConnected') => ResolvedBy200("logout")]_vars

\* C36: whatever the interleaving of connect and disconnect calls and of
\* their answers, host is non-null exactly when isConnected is true;
\* isConnected becomes true only with a 200 answer to an authenticate
\* request and false only with a 200 answer to a logout request.
C36_SessionConsistent == []C36_HostIffConnected /\ C36_OnlyOn200

\* the client is connected again after a logout, while its first connect
\* call was followed by the logout and by a second connect
C36_Witness ==
    /\ Len(sessionCalls) = 3
    /\ sessionCalls[1].op = "connect" /\ sessionCalls[1].promise = "resolved"
    /\ sessionCalls[2].op = "disconnect" /\ sessionCalls[2].promise = "resolved"
    /\ sessionCalls[3].op = "connect" /\ sessionCalls[3].promise = "resolved"
    /\ sessionCalls[3].before.host = null
    /\ isConnected
    /\ host # null

\* the call was the latest one, was made while no other call waited for an
\* answer, waits for no answer itself and did not resolve
FailedAlone(call) ==
    /\ call = sessionCalls[Len(sessionCalls)]
    /\ call.alone
    /\ call.pc = "ended"
    /\ call.promise # "resolved"

\* isConnected and host are what they were when the call was made
C37_ConnectionKept ==
    \A k \in DOMAIN sessionCalls :
        FailedAlone(sessionCalls[k]) =>
            /\ isConnected = sessionCalls[k].before.isConnected
            /\ host = sessionCalls[k].before.host

\* the request object of a session that was established when connect was
\* called is the one the client still holds
C37_RequestKept ==
    \A k \in DOMAIN sessionCalls :
        (/\ FailedAlone(sessionCalls[k])
         /\ sessionCalls[k].op = "connect"
         /\ sessionCalls[k].before.isConnected) =>
            postmanRequest = sessionCalls[k].before.postmanRequest

\* C37: a connect call that does not authenticate (transport error or a
\* status other than 200 from the probe or from the authenticate request)
\* leaves isConnected, host and the request object of an established session
\* as they were before the call; a disconnect call that fails leaves
\* isConnected and host as they were.
C37_FailureLeavesSession == C37_ConnectionKept /\ C37_RequestKept

\* C38: once the transport has answered, a connect call settles: whatever
\* the outcome (transport error, status 200, another status) of the probe
\* GET /v2/servers and of the authenticate POST, its promise is resolved or
\* rejected, never left pending.
C38_ConnectSettles ==
    \A k \in DOMAIN sessionCalls :
        (sessionCalls[k].op = "connect" /\ sessionCalls[k].pc = "ended") =>
            sessionCalls[k].promise \in {"resolved", "rejected"}

\* a connect call is left pending only by an answer that carried a status,
\* never by a transport error
C38_SettlesUnlessProbeStatus ==
    \A k \in DOMAIN sessionCalls :
        (sessionCalls[k].op = "connect" /\ sessionCalls[k].pc = "ended"
            /\ sessionCalls[k].promise = "pending") =>
            sessionCalls[k].status # 0

----------------------------------------------------------------------------
(* Properties of searchIntegrations when the parsing fails *)

\* the parse request was answered with a transport error or a status other
\* than 200
ParseFailed == Len(parseAnswer) = 1 /\ ~ParseSucceeded

\* the call is rejected with the rejection of parseEntities
C39_RejectsWithParseError ==
    ParseFailed =>
        /\ searchSettled.kind = "rejected"
        /\ SameObj(searchSettled.value,
                   CallbackOutcome(parseAnswer[1], 200, "Failed to parse text").value)

\* C39: when parseEntities fails, searchIntegrations rejects with the parse
\* error and issues no integrationLookup request for any integration.
C39_ParseFailureStops ==
    /\ C39_RejectsWithParseError
    /\ ParseFailed => LookupsRequested = {}

----------------------------------------------------------------------------
(* Properties of applyTags on a client that logs out *)

\* C35: applyTags never issues an upload request while the client is
\* disconnected: when a logout completes between two batches, the batches
\* that remain are not sent to a null host.  (host is null exactly when the
\* client is disconnected, and every request carries the host it was
\* issued with.)
C35_NoUploadWhenDisconnected ==
    \A i \in 1..Len(requests) : requests[i].uri[1] # null

----------------------------------------------------------------------------
(* Properties of createUser *)

\* C31: createUser called on a connected client with attributes that omit
\* isAdmin, isLocal and enabled issues one POST /v1/users whose attributes
\* carry is-admin = false, is-local = true and enabled = true, and resolves
\* with the body when the answer is a 200.
C31_CreateUserDefaults ==
    (apiPc["createUser"] # "idle" /\ apiConnectedAtCall["createUser"]) =>
        /\ RequestsOf("createUser") = 1
        /\ \A i \in 1..Len(apiRequests) :
              apiRequests[i].op = "createUser" =>
                  /\ apiRequests[i].method = "POST"
                  /\ apiRequests[i].uri[2] = "/v1/users"
                  /\ apiRequests[i].body.attributes["is-admin"] = FALSE
                  /\ apiRequests[i].body.attributes["is-local"] = TRUE
                  /\ apiRequests[i].body.attributes["enabled"] = TRUE
        /\ (/\ Len(apiAnswer["createUser"]) = 1
            /\ apiAnswer["createUser"][1].err = null
            /\ apiAnswer["createUser"][1].statusCode = 200) =>
              apiSettled["createUser"] = ResolvedWith(apiAnswer["createUser"][1].body)

----------------------------------------------------------------------------
(* Properties of the polling of clearChannelById *)

\* check i is answered in this step
AnsweredNow(i) == checks[i].state = "pending" /\ checks'[i].state = "answered"

\* the timer callback went on as after `isEmpty === true`
ReportedEmpty ==
    /\ pollingInterval' = "cleared"
    /\ clearBody'.clearComplete
    /\ clearPc = "polling" => (clearPc' = "resolved" /\ clearSettled'.kind = "resolved")

\* the timer callback went on as after `isEmpty === false`
ReportedNotEmpty == UNCHANGED <<pollingInterval, clearPc, clearSettled, clearBody>>

\* the timer callback went on in its catch block
ReportedError ==
    /\ pollingInterval' = "cleared"
    /\ clearBody' = clearBody
    /\ clearPc = "polling" => (clearPc' = "rejected" /\ clearSettled'.kind = "rejected")

\* C32: isChannelEmpty reports the channel empty exactly when the search is
\* answered 200 with a data array of length 0; a 200 with a data array that
\* is not empty, or with no data, is reported as not empty, so the polling
\* goes on; a search that fails is reported as an error, neither as empty
\* nor as not empty.
C32_EmptyIffNoData ==
    [][/\ \A i \in 1..Len(checks) :
             AnsweredNow(i) =>
                 IF checks'[i].response.err # null \/ checks'[i].response.statusCode # 200
                 THEN ReportedError
                 ELSE IF /\ "data" \in checks'[i].response.body.keys
                         /\ Len(checks'[i].response.body.data) = 0
                 THEN ReportedEmpty
                 ELSE ReportedNotEmpty
       /\ (Len(checks') > Len(checks) /\ checks'[Len(checks')].state = "refused") =>
             ReportedError]_vars

\* a check was answered 200 with no data and the call is still polling
C32_Witness ==
    /\ clearPc = "polling"
    /\ pollingInterval = "active"
    /\ Len(checks) >= 1
    /\ checks[1].state = "answered"
    /\ checks[1].response.err = null
    /\ checks[1].response.statusCode = 200
    /\ "data" \notin checks[1].response.body.keys

\* the body of the DELETE answer with nothing but clearComplete added
C33_BodyKept ==
    /\ clearBody.keys = clearResponse.body.keys \cup {"clearComplete"}
    /\ clearBody.clearComplete = TRUE
    /\ clearBody.meta = clearResponse.body.meta

C33_ResolvedWithBody ==
    clearSettled.kind = "resolved" => (clearSettled.value = BodyRef /\ C33_BodyKept)

C33_ChecksLeaveBody ==
    [][(\E i \in 1..Len(checks) : AnsweredNow(i)) =>
          /\ clearBody'.meta = clearBody.meta
          /\ clearBody'.keys \ {"clearComplete"} = clearBody.keys \ {"clearComplete"}]_vars

\* C33: the payload a completed clear resolves with is the body of the
\* DELETE answer with only clearComplete added: the deletion counters in
\* meta are as the DELETE returned them, and the answer of no check changes
\* the body.
C33_OnlyClearCompleteAdded == []C33_ResolvedWithBody /\ C33_ChecksLeaveBody

\* the clear completed by its first check, and a second check that was under
\* way was answered afterwards with an item
C33_Witness ==
    /\ clearSettled.kind = "resolved"
    /\ Len(checks) = 2
    /\ CheckEmpty(checks[1])
    /\ checks[2].state = "answered"
    /\ checks[2].response.statusCode = 200
    /\ checks[2].response.body.data # <<>>
    /\ clearBody.meta.num_context_rows_deleted = 4

\* C34: while clearChannelById polls, at most one is-channel-empty check is
\* in flight: a tick of the timer that comes while the check before it has
\* not returned starts no second check.
C34_OneCheckInFlight ==
    Cardinality({i \in 1..Len(checks) : checks[i].state = "pending"}) <= 1

====
